---------------------------- MODULE Spec2Model ----------------------------
(***************************************************************************)
(* A model of the Claude Code command/permission subsystem of the demon    *)
(* bot: the permission store (PermissionManager), the project registry     *)
(* (ProjectManager) and the executor (ClaudeCodeExecutor) with its         *)
(* pending-permission table, its timers and its chunked delivery.          *)
(*                                                                         *)
(* Short strings (paths, commands, ids) are TLA+ strings, taken apart with *)
(* Head/Tail/SubSeq as the code takes them apart.  Texts that can exceed   *)
(* the 4000-unit delivery budget are ropes: sequences of pieces, a piece   *)
(* [s, off, n] standing for the n characters off..off+n-1 of the source    *)
(* string s.  A short source is the literal string itself; the source      *)
(* "BODY" is an arbitrarily long run of pairwise distinct characters that  *)
(* are neither newlines nor white space.                                   *)
(***************************************************************************)
EXTENDS Integers, Sequences, FiniteSets, TLC

\* ------------------------------------------------------------------ bounds
\* Lines (newline-separated runs) of an agent text in the chunking runs.
MaxLines == 3

\* remember/clearProject calls in one run of the permission store.
MaxStoreOps == 2

\* Events the agent runs deliver, all runs together.  Every permission
\* request answers one of them, so it bounds the permission requests too.
MaxEvents == 2

\* ------------------------------------------------------- program constants
\* executor.ts:230  const MAX_CHUNK_SIZE = 4000
MAX_CHUNK_SIZE == 4000

\* JavaScript's undefined, for optional string fields.
Undef == "<undefined>"

VARIABLES
    memory,       \* PermissionManager.memory: project name -> {allowed, denied}
    disk,         \* the content of PERMISSIONS_PATH, as last written
    permOp,       \* the last PermissionManager call and what it returned
    storeOps,     \* how many remember/clearProject calls have been made
    chunker,      \* the activation of sendChunkedResponse being stepped
    responses,    \* claude-code:response events published, in order, per request
    config,       \* ProjectManager.config
    activeSessions,      \* executor.ts:20: "chatId:projectName" -> session id
    clock,        \* the last value Date.now() gave a request id
    slots,        \* the requests and their agent runs
    delivered,    \* how many events the agent runs have delivered
    pendingPermissions,  \* executor.ts:12: the ids that hold a resolver
    promises,     \* the promise of each permission request, by number
    timers,       \* the permission requests whose 5-minute timer is still to fire
    permRequests, \* claude-code:permission events published, in order
    cleared,      \* the session keys clearSession was called for with no request
                  \* for the key published since
    parsed,       \* the call of parseClaudeCodeCommand: its text and what it returns
    update,       \* the last chat update the bot handled, and how many it handled
    incoming,     \* message:incoming events published, in order
    replies,      \* what the command handler replied with ctx.reply, in order
    typing,       \* claude-code commands whose handler awaits the typing indicator
    configFile,   \* the content of CONFIG_PATH, or Missing
    regOp,        \* the last ProjectManager lookup and what it returned
    conversations,  \* ConversationStore.conversations: chat id -> messages
    convOp        \* the last ConversationStore call, and how many were made

permVars == <<memory, disk, permOp, storeOps>>
chunkVars == <<chunker, responses>>
telegramVars == <<update, incoming, replies, typing>>
sideVars == <<parsed, telegramVars, configFile, regOp, conversations, convOp>>
runVars == <<activeSessions, clock, slots, delivered, pendingPermissions,
             promises, timers, permRequests, cleared>>
coreVars == <<config, runVars>>
execVars == <<coreVars, sideVars>>
vars == <<memory, disk, permOp, storeOps, chunker, responses, config, activeSessions,
          clock, slots, delivered, pendingPermissions, promises, timers, permRequests,
          cleared, sideVars>>

\* -------------------------------------------------------------------- ropes
Piece(s, off, n) == [s |-> s, off |-> off, n |-> n]
Lit(str) == IF str = "" THEN <<>> ELSE <<Piece(str, 0, Len(str))>>
NL == Piece("\n", 0, 1)
IsNL(p) == p.s = "\n"

\* text.length
RECURSIVE TLen(_)
TLen(t) == IF t = <<>> THEN 0 ELSE Head(t).n + TLen(Tail(t))

\* Canonical form: no empty piece, adjacent pieces of one source merged.
RECURSIVE Normalize(_)
Normalize(t) ==
    IF t = <<>> THEN <<>>
    ELSE LET h == Head(t)
             r == Normalize(Tail(t))
         IN  IF h.n = 0 THEN r
             ELSE IF r # <<>> /\ ~IsNL(h) /\ Head(r).s = h.s /\ Head(r).off = h.off + h.n
                  THEN <<Piece(h.s, h.off, h.n + Head(r).n)>> \o Tail(r)
                  ELSE <<h>> \o r

\* a + b
Concat(a, b) == Normalize(a \o b)

\* text.slice(k): the text without its first k characters
RECURSIVE Drop(_, _)
Drop(t, k) ==
    IF k <= 0 \/ t = <<>> THEN t
    ELSE LET h == Head(t)
         IN  IF h.n <= k THEN Drop(Tail(t), k - h.n)
             ELSE <<Piece(h.s, h.off + k, h.n - k)>> \o Tail(t)

\* text.slice(0, k): the first k characters
RECURSIVE Take(_, _)
Take(t, k) ==
    IF k <= 0 \/ t = <<>> THEN <<>>
    ELSE LET h == Head(t)
         IN  IF h.n <= k THEN <<h>> \o Take(Tail(t), k - h.n)
             ELSE <<Piece(h.s, h.off, k)>>

\* text.lastIndexOf("\n", from): the largest index <= from holding a newline,
\* -1 when there is none.  pos is the index of the first character of t.
RECURSIVE LastNLFrom(_, _, _, _)
LastNLFrom(t, pos, from, best) ==
    IF t = <<>> \/ pos > from THEN best
    ELSE LET h == Head(t)
         IN  LastNLFrom(Tail(t), pos + h.n, from, IF IsNL(h) THEN pos ELSE best)

LastIndexOfNL(t, from) == LastNLFrom(t, 0, from, -1)

\* ------------------------------------------------------------------ strings
\* s.includes(ch), ch one character
RECURSIVE Includes(_, _)
Includes(s, ch) == s # "" /\ (Head(s) = ch \/ Includes(Tail(s), ch))

\* s.split(ch), ch one character: cur is the part being read
RECURSIVE SplitFrom(_, _, _)
SplitFrom(s, ch, cur) ==
    IF s = "" THEN <<cur>>
    ELSE IF Head(s) = ch THEN <<cur>> \o SplitFrom(Tail(s), ch, "")
    ELSE SplitFrom(Tail(s), ch, cur \o Head(s))

Split(s, ch) == SplitFrom(s, ch, "")

\* parts.join(sep)
RECURSIVE Join(_, _)
Join(parts, sep) ==
    IF parts = <<>> THEN ""
    ELSE IF Len(parts) = 1 THEN parts[1]
    ELSE parts[1] \o sep \o Join(Tail(parts), sep)

\* parts without its last element: what parts is after parts.pop()
Front(parts) == SubSeq(parts, 1, Len(parts) - 1)
Last(parts) == parts[Len(parts)]

\* JavaScript truthiness of an optional string
Truthy(s) == s # Undef /\ s # ""

\* ---------------------------------------------------------------- minimatch
\* The glob match parser.ts:179 calls, for patterns of literals, "*", "?" and
\* "**" (no braces, classes, negation or comments), with its default options.
GlobMagic(seg) == Includes(seg, "*") \/ Includes(seg, "?")

\* one path segment against one pattern segment: "*" is any run of
\* characters, "?" is one character
RECURSIVE Wild(_, _)
Wild(p, f) ==
    IF p = "" THEN f = ""
    ELSE IF Head(p) = "*" THEN Wild(Tail(p), f) \/ (f # "" /\ Wild(p, Tail(f)))
    ELSE IF Head(p) = "?" THEN f # "" /\ Wild(Tail(p), Tail(f))
    ELSE f # "" /\ Head(f) = Head(p) /\ Wild(Tail(p), Tail(f))

\* A leading dot of a file name is matched only by a dot of the pattern, and
\* a pattern that starts with a wildcard matches no empty name.
SegMatch(p, f) ==
    IF ~GlobMagic(p) THEN p = f
    ELSE /\ f # ""
         /\ (Head(f) = "." => Head(p) = ".")
         /\ Wild(p, f)

DotSeg(f) == f # "" /\ Head(f) = "."

\* minimatch's matchOne on the segment lists: "**" swallows any number of
\* segments, none of them starting with a dot
RECURSIVE MatchOne(_, _)
MatchOne(file, pattern) ==
    IF pattern = <<>> THEN file = <<>> \/ file = <<"">>
    ELSE IF Head(pattern) = "**"
    THEN IF Len(pattern) = 1
         THEN \A i \in 1..Len(file) : ~DotSeg(file[i])
         ELSE \E k \in 0..Len(file) :
                 /\ k < Len(file)
                 /\ \A i \in 1..k : ~DotSeg(file[i])
                 /\ MatchOne(SubSeq(file, k + 1, Len(file)), Tail(pattern))
    ELSE /\ file # <<>>
         /\ SegMatch(Head(pattern), Head(file))
         /\ MatchOne(Tail(file), Tail(pattern))

\* split on runs of "/": an empty segment survives only at the ends
SlashSplit(s) ==
    LET parts == Split(s, "/")
        keep == {i \in 1..Len(parts) : parts[i] # "" \/ i = 1 \/ i = Len(parts)}
        RECURSIVE Pick(_)
        Pick(i) == IF i > Len(parts) THEN <<>>
                   ELSE (IF i \in keep THEN <<parts[i]>> ELSE <<>>) \o Pick(i + 1)
    IN  Pick(1)

minimatch(path, pattern) == MatchOne(SlashSplit(path), SlashSplit(pattern))

\* ------------------------------------------------------------------- RegExp
\* new RegExp(pattern).test(s) for patterns of literals, ".", a leading "^"
\* and a trailing "$".
RECURSIVE MatchHere(_, _)
MatchHere(p, s) ==
    IF p = "" THEN TRUE
    ELSE IF p = "$" THEN s = ""
    ELSE s # "" /\ (Head(p) = "." \/ Head(p) = Head(s)) /\ MatchHere(Tail(p), Tail(s))

RECURSIVE MatchFrom(_, _)
MatchFrom(p, s) == MatchHere(p, s) \/ (s # "" /\ MatchFrom(p, Tail(s)))

RegExpTest(p, s) ==
    IF p # "" /\ Head(p) = "^" THEN MatchHere(Tail(p), s) ELSE MatchFrom(p, s)

\* -------------------------------------------------------- PermissionManager
\* The properties every object parsed from JSON inherits: `in` and [] see them.
ObjectPrototypeKeys ==
    {"constructor", "__proto__", "hasOwnProperty", "isPrototypeOf",
     "propertyIsEnumerable", "toLocaleString", "toString", "valueOf"}
Inherited == "<inherited>"

\* this.memory[projectName] is a property the memory object inherits, not a
\* project's lists: reading .allowed or .denied of it gives undefined
InheritedEntry(mem, projectName) ==
    projectName \notin DOMAIN mem /\ projectName \in ObjectPrototypeKeys

\* parser.ts:265-270 PermissionRule; an absent field is Undef
Rule(tool, pattern, command, commandPattern) ==
    [tool |-> tool, pattern |-> pattern, command |-> command,
     commandPattern |-> commandPattern]

\* a tool input: the two fields the store reads; an absent field is Undef
Input(file_path, command) == [file_path |-> file_path, command |-> command]

HasFilePath(input) == input.file_path # Undef

\* parser.ts:170-195
matchesRule(rule, toolName, input) ==
    IF rule.tool # toolName THEN FALSE
    ELSE IF Truthy(rule.pattern) /\ HasFilePath(input)
    THEN minimatch(input.file_path, rule.pattern)
    ELSE IF /\ toolName = "Bash" /\ Truthy(input.command)
            /\ \/ (Truthy(rule.command) /\ input.command = rule.command)
               \/ (Truthy(rule.commandPattern)
                     /\ RegExpTest(rule.commandPattern, input.command))
    THEN TRUE
    ELSE ~Truthy(rule.pattern) /\ ~Truthy(rule.command) /\ ~Truthy(rule.commandPattern)

AnyMatch(list, toolName, input) ==
    \E i \in 1..Len(list) : matchesRule(list[i], toolName, input)

\* checkPermission with the two scans in the other order
checkPermissionAllowedFirst(mem, projectName, toolName, input) ==
    IF projectName \notin DOMAIN mem THEN "ask"
    ELSE IF AnyMatch(mem[projectName].allowed, toolName, input) THEN "allowed"
    ELSE IF AnyMatch(mem[projectName].denied, toolName, input) THEN "denied"
    ELSE "ask"

\* parser.ts:145-168; iterating the undefined .denied of an inherited entry
\* throws a TypeError
checkPermission(mem, projectName, toolName, input) ==
    IF InheritedEntry(mem, projectName) THEN "TypeError"
    ELSE IF projectName \notin DOMAIN mem THEN "ask"
    ELSE IF AnyMatch(mem[projectName].denied, toolName, input) THEN "denied"
    ELSE IF AnyMatch(mem[projectName].allowed, toolName, input) THEN "allowed"
    ELSE "ask"

\* parser.ts:224-246
createRule(toolName, input) ==
    LET path == input.file_path
        parts == Split(path, "/")
        file == Last(parts)
        ext == IF Includes(file, ".") THEN Last(Split(file, ".")) ELSE ""
        pattern == IF ~HasFilePath(input) THEN Undef
                   ELSE IF ext # "" THEN Join(Front(parts), "/") \o "/**/*." \o ext
                   ELSE path
        command == IF toolName = "Bash" /\ Truthy(input.command)
                   THEN input.command ELSE Undef
    IN  Rule(toolName, pattern, command, Undef)

\* parser.ts:139-143
ensureProject(mem, projectName) ==
    IF projectName \in DOMAIN mem \/ InheritedEntry(mem, projectName) THEN mem
    ELSE mem @@ (projectName :> [allowed |-> <<>>, denied |-> <<>>])

\* the duplicate test never finding the rule
RuleExistsNever(list, rule) == FALSE

\* parser.ts:211-216
RuleExists(list, rule) ==
    \E i \in 1..Len(list) :
        /\ list[i].tool = rule.tool
        /\ list[i].pattern = rule.pattern
        /\ list[i].command = rule.command

\* remember(...) writing the rule to the list of the other decision
rememberMemoryOtherList(mem, projectName, toolName, input, allowed) ==
    LET m == ensureProject(mem, projectName)
        rule == createRule(toolName, input)
        list == IF allowed THEN m[projectName].denied ELSE m[projectName].allowed
    IN  IF RuleExists(list, rule) THEN m
        ELSE IF allowed
        THEN [m EXCEPT ![projectName].denied = Append(list, rule)]
        ELSE [m EXCEPT ![projectName].allowed = Append(list, rule)]

\* parser.ts:197-222: the memory after remember(...); list.some on the
\* undefined list of an inherited entry throws before anything is written
rememberMemory(mem, projectName, toolName, input, allowed) ==
    LET m == ensureProject(mem, projectName)
        rule == createRule(toolName, input)
        list == IF allowed THEN m[projectName].allowed ELSE m[projectName].denied
    IN  IF InheritedEntry(mem, projectName) THEN mem
        ELSE IF RuleExists(list, rule) THEN m
        ELSE IF allowed
        THEN [m EXCEPT ![projectName].allowed = Append(list, rule)]
        ELSE [m EXCEPT ![projectName].denied = Append(list, rule)]

\* remember(...) never reaching this.save()
rememberSavesNever(mem, projectName, toolName, input, allowed) == FALSE

\* parser.ts:218-221: whether remember(...) reaches this.save()
rememberSaves(mem, projectName, toolName, input, allowed) ==
    LET m == ensureProject(mem, projectName)
        list == IF allowed THEN m[projectName].allowed ELSE m[projectName].denied
    IN  /\ ~InheritedEntry(mem, projectName)
        /\ ~RuleExists(list, createRule(toolName, input))

\* how remember(...) ends: the rule was pushed and saved, it was there
\* already (parser.ts:211-216), or the call threw
rememberOutcome(mem, projectName, toolName, input, allowed) ==
    IF InheritedEntry(mem, projectName) THEN "TypeError"
    ELSE IF rememberSaves(mem, projectName, toolName, input, allowed) THEN "saved"
    ELSE "exists"

\* parser.ts:248-251: the memory after delete this.memory[projectName]
clearProjectMemory(mem, projectName) ==
    [p \in (DOMAIN mem) \ {projectName} |-> mem[p]]

\* parser.ts:253-255
getProjectPermissions(mem, projectName) ==
    IF projectName \in DOMAIN mem THEN mem[projectName]
    ELSE IF projectName \in ObjectPrototypeKeys THEN Inherited
    ELSE Undef

\* ------------------------------------- inputs of the permission-store runs
EmptyMemory == [p \in {} |-> 0]

\* Rules a permission file can hold that remember never writes: a regular
\* expression over commands, a blanket rule, a narrow glob.
LoadedRules ==
    { Rule("Edit", "/s/p/*.md", Undef, Undef),
      Rule("Edit", Undef, Undef, Undef),
      Rule("Bash", Undef, Undef, "^git ") }

LoadedLists == {<<>>} \cup {<<r>> : r \in LoadedRules}

\* The files PERMISSIONS_PATH is loaded from: missing (initialized to {}), or
\* rules for the project "blog".
LoadedMemories ==
    {EmptyMemory} \cup
    { ("blog" :> [allowed |-> a, denied |-> d]) : a \in LoadedLists, d \in LoadedLists }

ProjectNames == {"blog", "work"}

\* The tool calls the agent makes.
ToolCalls ==
    { [tool |-> "Edit", input |-> Input("/s/p/a.md", Undef)],
      [tool |-> "Edit", input |-> Input("/s/b.md", Undef)],
      [tool |-> "Edit", input |-> Input("/s/c.json", Undef)],
      [tool |-> "Write", input |-> Input("/s/Makefile", Undef)],
      [tool |-> "Bash", input |-> Input(Undef, "git status")],
      [tool |-> "Bash", input |-> Input(Undef, "rm -rf x")],
      [tool |-> "Grep", input |-> Input(Undef, Undef)] }

\* The tool calls whose answer the user asks to have remembered.
RememberCalls ==
    { [tool |-> "Edit", input |-> Input("/s/p/a.md", Undef)],
      [tool |-> "Edit", input |-> Input("/s/b.md", Undef)],
      [tool |-> "Write", input |-> Input("/s/Makefile", Undef)],
      [tool |-> "Bash", input |-> Input(Undef, "git status")] }

NoOp == [op |-> "none", project |-> "", tool |-> "", input |-> Input(Undef, Undef),
         allowed |-> FALSE, result |-> ""]

PermInit ==
    /\ memory \in LoadedMemories
    /\ disk = memory
    /\ permOp = NoOp
    /\ storeOps = 0

\* a call of checkPermission
PermCheck ==
    \E p \in ProjectNames, c \in ToolCalls :
        /\ permOp' = [op |-> "check", project |-> p, tool |-> c.tool,
                      input |-> c.input, allowed |-> FALSE,
                      result |-> checkPermission(memory, p, c.tool, c.input)]
        /\ UNCHANGED <<memory, disk, storeOps>>

\* a call of remember
PermRemember ==
    \E p \in ProjectNames, c \in RememberCalls, a \in BOOLEAN :
        /\ storeOps < MaxStoreOps
        /\ storeOps' = storeOps + 1
        /\ memory' = rememberMemory(memory, p, c.tool, c.input, a)
        /\ disk' = IF rememberSaves(memory, p, c.tool, c.input, a) THEN memory' ELSE disk
        /\ permOp' = [op |-> "remember", project |-> p, tool |-> c.tool,
                      input |-> c.input, allowed |-> a,
                      result |-> rememberOutcome(memory, p, c.tool, c.input, a)]

\* a call of clearProject
PermClear ==
    \E p \in ProjectNames :
        /\ storeOps < MaxStoreOps
        /\ storeOps' = storeOps + 1
        /\ memory' = clearProjectMemory(memory, p)
        /\ disk' = memory'
        /\ permOp' = [op |-> "clear", project |-> p, tool |-> "",
                      input |-> Input(Undef, Undef), allowed |-> FALSE, result |-> ""]


IdleChunker == [pc |-> "done", text |-> <<>>, sessionId |-> Undef,
                remaining |-> <<>>, chunks |-> <<>>]


\* ------------------------------------------------- sendChunkedResponse
\* the cut with a newline at the halfway point itself counted as too early
SplitIndexPastHalf(remaining) ==
    LET i == LastIndexOfNL(remaining, MAX_CHUNK_SIZE)
    IN  IF i = -1 \/ 2 * i <= MAX_CHUNK_SIZE THEN MAX_CHUNK_SIZE ELSE i

\* the cut at the last newline wherever it is, the first half included
SplitIndexAtAnyNewline(remaining) ==
    LET i == LastIndexOfNL(remaining, MAX_CHUNK_SIZE)
    IN  IF i = -1 THEN MAX_CHUNK_SIZE ELSE i

\* executor.ts:252-255: where the next chunk of `remaining` is cut.
SplitIndex(remaining) ==
    LET i == LastIndexOfNL(remaining, MAX_CHUNK_SIZE)
    IN  IF i = -1 \/ 2 * i < MAX_CHUNK_SIZE THEN MAX_CHUNK_SIZE ELSE i

\* executor.ts:257: chunks.push(remaining.slice(0, splitIndex))
NextChunk(remaining) == Take(remaining, SplitIndex(remaining))

\* executor.ts:258: remaining = remaining.slice(splitIndex + 1)
NextRemaining(remaining) == Drop(remaining, SplitIndex(remaining) + 1)

\* executor.ts:246-259: the whole splitting loop.
RECURSIVE SplitChunks(_)
SplitChunks(remaining) ==
    IF TLen(remaining) = 0 THEN <<>>
    ELSE IF TLen(remaining) <= MAX_CHUNK_SIZE THEN <<remaining>>
    ELSE <<NextChunk(remaining)>> \o SplitChunks(NextRemaining(remaining))

\* the part indicator numbering the parts from 0
PartIndicatorFromZero(i, n) ==
    IF n > 1
    THEN Lit("[Part " \o ToString(i - 1) \o "/" \o ToString(n) \o "]") \o <<NL, NL>>
    ELSE <<>>

\* executor.ts:264-265: `[Part ${i + 1}/${chunks.length}]\n\n`, or "".
PartIndicator(i, n) ==
    IF n > 1
    THEN Lit("[Part " \o ToString(i) \o "/" \o ToString(n) \o "]") \o <<NL, NL>>
    ELSE <<>>

Response(requestId, chatId, text, sessionId, isPartial) ==
    [requestId |-> requestId, chatId |-> chatId, text |-> text,
     sessionId |-> sessionId, isPartial |-> isPartial]

\* the events with the session id on every chunk
ChunkEventsAllSessions(requestId, chatId, chunks, sessionId) ==
    [i \in 1..Len(chunks) |->
        LET isLast == (i = Len(chunks))
        IN  Response(requestId, chatId,
                     PartIndicator(i, Len(chunks)) \o chunks[i],
                     sessionId,
                     IF isLast THEN "false" ELSE "true")]

\* executor.ts:262-274: the events published for the chunks, in order.
ChunkEvents(requestId, chatId, chunks, sessionId) ==
    [i \in 1..Len(chunks) |->
        LET isLast == (i = Len(chunks))
        IN  Response(requestId, chatId,
                     PartIndicator(i, Len(chunks)) \o chunks[i],
                     IF isLast THEN sessionId ELSE Undef,
                     IF isLast THEN "false" ELSE "true")]

\* executor.ts:224-275: every event one call publishes.
SendChunkedResponse(requestId, chatId, text, sessionId) ==
    IF TLen(text) <= MAX_CHUNK_SIZE
    THEN <<Response(requestId, chatId, text, sessionId, Undef)>>
    ELSE ChunkEvents(requestId, chatId, SplitChunks(text), sessionId)

\* ----------------------------------------------------------- ProjectManager
UpperCase == "ABCDEFGHIJKLMNOPQRSTUVWXYZ"
LowerCase == "abcdefghijklmnopqrstuvwxyz"

LowerChar(c) ==
    IF \E i \in 1..Len(UpperCase) : SubSeq(UpperCase, i, i) = c
    THEN LET i == CHOOSE j \in 1..Len(UpperCase) : SubSeq(UpperCase, j, j) = c
         IN  SubSeq(LowerCase, i, i)
    ELSE c

\* name.toLowerCase()
RECURSIVE ToLower(_)
ToLower(s) == IF s = "" THEN "" ELSE LowerChar(Head(s)) \o ToLower(Tail(s))

\* mcp/client.ts:160-163: the config written when CONFIG_PATH is missing
DefaultConfig == [allowedUserId |-> "", projects |-> <<>>]

\* The operator's config: one authorized user, two projects, in file order.
OperatorConfig ==
    [allowedUserId |-> "u1",
     projects |-> << [name |-> "blog", path |-> "/s"],
                     [name |-> "work", path |-> "/w"] >>]

\* mcp/client.ts:158-169: what loadConfig returns
LoadedConfigs == {DefaultConfig, OperatorConfig}

OwnKeys(cfg) == {cfg.projects[i].name : i \in 1..Len(cfg.projects)}

\* isAuthorizedUser without the comparison
isAuthorizedUserAnyone(cfg, userId) == TRUE

\* mcp/client.ts:182-184
isAuthorizedUser(cfg, userId) == cfg.allowedUserId = userId

\* mcp/client.ts:186-188: this.config.projects[name.toLowerCase()]
getProject(cfg, name) ==
    LET key == ToLower(name)
    IN  IF key \in OwnKeys(cfg)
        THEN LET i == CHOOSE j \in 1..Len(cfg.projects) : cfg.projects[j].name = key
             IN  cfg.projects[i].path
        ELSE IF key \in ObjectPrototypeKeys THEN Inherited
        ELSE Undef

\* Object.entries lists the keys that are array indices first, in ascending
\* numeric order, and the other keys after them in the order of the file.
DigitValue(c) == CHOOSE d \in 0..9 : ToString(d) = c

RECURSIVE AllDigits(_)
AllDigits(s) ==
    s = "" \/ ((\E d \in 0..9 : ToString(d) = Head(s)) /\ AllDigits(Tail(s)))

\* a canonical numeric string: digits only, no leading zero
IsIndexKey(name) ==
    name # "" /\ AllDigits(name) /\ (Len(name) = 1 \/ Head(name) # "0")

RECURSIVE ToNat(_, _)
ToNat(s, acc) == IF s = "" THEN acc ELSE ToNat(Tail(s), 10 * acc + DigitValue(Head(s)))

RECURSIVE Ascending(_, _)
Ascending(projects, I) ==
    IF I = {} THEN <<>>
    ELSE LET m == CHOOSE i \in I :
                     \A j \in I : ToNat(projects[i].name, 0) <= ToNat(projects[j].name, 0)
         IN  <<projects[m]>> \o Ascending(projects, I \ {m})

\* mcp/client.ts:190-195
listProjects(cfg) ==
    Ascending(cfg.projects,
              {i \in 1..Len(cfg.projects) : IsIndexKey(cfg.projects[i].name)})
    \o SelectSeq(cfg.projects, LAMBDA e : ~IsIndexKey(e.name))

\* mcp/client.ts:197-199: name.toLowerCase() in this.config.projects
projectExists(cfg, name) ==
    ToLower(name) \in OwnKeys(cfg) \cup ObjectPrototypeKeys

\* -------------------------------------------------- parseClaudeCodeCommand
\* The characters \s matches and trim() strips, of those the texts hold.
IsSpaceChar(c) == c \in {" ", "\t", "\n"}

RECURSIVE TrimLeft(_)
TrimLeft(s) == IF s # "" /\ IsSpaceChar(Head(s)) THEN TrimLeft(Tail(s)) ELSE s

RECURSIVE TrimRight(_)
TrimRight(s) ==
    IF s # "" /\ IsSpaceChar(SubSeq(s, Len(s), Len(s)))
    THEN TrimRight(SubSeq(s, 1, Len(s) - 1)) ELSE s

\* text.trim()
StrTrim(s) == TrimRight(TrimLeft(s))

\* the longest prefix without white space: what a greedy \S+ takes
RECURSIVE NonSpaceRun(_)
NonSpaceRun(s) ==
    IF s = "" \/ IsSpaceChar(Head(s)) THEN "" ELSE Head(s) \o NonSpaceRun(Tail(s))

After(s, k) == SubSeq(s, k + 1, Len(s))

\* the text starts with the keyword, letter case ignored (the i flag)
StartsWithI(s, kw) == Len(s) >= Len(kw) /\ ToLower(SubSeq(s, 1, Len(kw))) = kw

\* s is \s+ followed by at least one more character
SpaceThenMore(s) == s # "" /\ IsSpaceChar(Head(s)) /\ TrimLeft(s) # ""

NoMatch == [ok |-> FALSE, name |-> "", prompt |-> ""]
Match(name, prompt) == [ok |-> TRUE, name |-> name, prompt |-> prompt]

\* parser.ts:47: /^cc\s+(.+)$/is on the trimmed text
MatchCc(t) ==
    IF StartsWithI(t, "cc") /\ SpaceThenMore(After(t, 2))
    THEN Match("", TrimLeft(After(t, 2))) ELSE NoMatch

\* parser.ts:63, 69: /^<kw>\s+(\S+)$/i
MatchName(t, kw) ==
    IF /\ StartsWithI(t, kw)
       /\ SpaceThenMore(After(t, Len(kw)))
       /\ NonSpaceRun(TrimLeft(After(t, Len(kw)))) = TrimLeft(After(t, Len(kw)))
    THEN Match(TrimLeft(After(t, Len(kw))), "") ELSE NoMatch

\* (\S+)\s+(.+)$ on what follows the keyword and its white space
MatchNamePrompt(x) ==
    LET name == NonSpaceRun(x)
    IN  IF name # "" /\ SpaceThenMore(After(x, Len(name)))
        THEN Match(name, TrimLeft(After(x, Len(name)))) ELSE NoMatch

\* parser.ts:75: /^\/code\s+(\S+)\s+(.+)$/is
MatchCode(t) ==
    IF StartsWithI(t, "/code") /\ SpaceThenMore(After(t, 5))
    THEN MatchNamePrompt(TrimLeft(After(t, 5))) ELSE NoMatch

\* parser.ts:84: /^@(\S+)\s+(.+)$/is
MatchAt(t) ==
    IF StartsWithI(t, "@") THEN MatchNamePrompt(After(t, 1)) ELSE NoMatch

\* the in form accepting a name with no separator after it
MatchInNoSeparator(t) ==
    IF StartsWithI(t, "in") /\ SpaceThenMore(After(t, 2))
    THEN MatchNamePrompt(TrimLeft(After(t, 2))) ELSE NoMatch

\* parser.ts:94: /^in\s+(\S+)[,:]\s*(.+)$/is: the greedy \S+ gives back
\* characters until a "," or ":" with something after it follows the name
MatchIn(t) ==
    IF StartsWithI(t, "in") /\ SpaceThenMore(After(t, 2))
    THEN LET x == TrimLeft(After(t, 2))
             run == NonSpaceRun(x)
             seps == {j \in 2..Len(run) :
                         /\ SubSeq(run, j, j) \in {",", ":"}
                         /\ After(x, j) # ""}
         IN  IF seps = {} THEN NoMatch
             ELSE LET j == CHOOSE k \in seps : \A l \in seps : l <= k
                  IN  Match(SubSeq(run, 1, j - 1), TrimLeft(After(x, j)))
    ELSE NoMatch

Null == [type |-> "null", projectName |-> Undef, prompt |-> Undef]
Command(type, projectName, prompt) ==
    [type |-> type, projectName |-> projectName, prompt |-> prompt]

\* the project name of a form taken as it was typed
ProjectArgAsTyped(name) == name

\* parser.ts:65, 71, 77, 86, 96: <match>[1].toLowerCase()
ProjectArg(name) == ToLower(name)

\* parser.ts:43-103
parseClaudeCodeCommand(cfg, text) ==
    LET trimmed == StrTrim(text)
        cc == MatchCc(trimmed)
        clear == MatchName(trimmed, "/code-clear")
        perm == MatchName(trimmed, "/code-permissions")
        code == MatchCode(trimmed)
        at == MatchAt(trimmed)
        in == MatchIn(trimmed)
    IN  IF cc.ok /\ Len(listProjects(cfg)) > 0
        THEN Command("claude-code", listProjects(cfg)[1].name, StrTrim(cc.prompt))
        ELSE IF ToLower(trimmed) = "/projects"
        THEN Command("list-projects", Undef, Undef)
        ELSE IF clear.ok
        THEN Command("clear-session", ProjectArg(clear.name), Undef)
        ELSE IF perm.ok
        THEN Command("clear-permissions", ProjectArg(perm.name), Undef)
        ELSE IF code.ok /\ projectExists(cfg, ProjectArg(code.name))
        THEN Command("claude-code", ProjectArg(code.name), StrTrim(code.prompt))
        ELSE IF at.ok /\ projectExists(cfg, ProjectArg(at.name))
        THEN Command("claude-code", ProjectArg(at.name), StrTrim(at.prompt))
        ELSE IF in.ok /\ projectExists(cfg, ProjectArg(in.name))
        THEN Command("claude-code", ProjectArg(in.name), StrTrim(in.prompt))
        ELSE Null

\* ------------------------------------------------------ ClaudeCodeExecutor
Chats == {"c1", "c2"}
Users == {"u1", "u2"}

\* The commands that reach the executor: who asks, where, for which project.
RequestInputs ==
    { [chatId |-> "c1", userId |-> "u1", projectName |-> "blog"],
      [chatId |-> "c2", userId |-> "u1", projectName |-> "blog"],
      [chatId |-> "c1", userId |-> "u2", projectName |-> "blog"],
      [chatId |-> "c1", userId |-> "u1", projectName |-> "nope"],
      [chatId |-> "c1", userId |-> "u1", projectName |-> "constructor"] }

\* The commands of the permission protocol's runs: the operator from two
\* chats, and a stranger.
ProtocolInputs == { in \in RequestInputs : in.projectName = "blog" }

\* Two requests, so that one run overlaps another.
Slots == {1, 2}

\* executor.ts:111, 278, 282: the key of the session map
SessionKey(chatId, projectName) == chatId \o ":" \o projectName

\* getActiveSession always answering that there is no session
getActiveSessionNone(sessions, chatId, projectName) == Undef

\* executor.ts:277-279
getActiveSession(sessions, chatId, projectName) ==
    IF SessionKey(chatId, projectName) \in DOMAIN sessions
    THEN sessions[SessionKey(chatId, projectName)] ELSE Undef

\* executor.ts:281-283
clearSessionMap(sessions, chatId, projectName) ==
    [k \in (DOMAIN sessions) \ {SessionKey(chatId, projectName)} |-> sessions[k]]

\* executor.ts:111: activeSessions.set(key, id)
SetSession(sessions, chatId, projectName, id) ==
    [k \in (DOMAIN sessions) \cup {SessionKey(chatId, projectName)} |->
        IF k = SessionKey(chatId, projectName) THEN id ELSE sessions[k]]

\* String(x)
Str(x) == IF x = Undef THEN "undefined" ELSE x

\* executor.ts:57
RefusalText == Lit("You are not authorized to use Claude Code features.")

\* executor.ts:66-69
RECURSIVE ProjectLines(_)
ProjectLines(projects) ==
    IF projects = <<>> THEN <<>>
    ELSE Lit("- " \o Head(projects).name)
         \o (IF Len(projects) > 1 THEN <<NL>> ELSE <<>>)
         \o ProjectLines(Tail(projects))

ProjectList(cfg) ==
    IF Len(listProjects(cfg)) > 0 THEN ProjectLines(listProjects(cfg))
    ELSE Lit("No projects configured.")

\* executor.ts:74
NotFoundText(cfg, projectName) ==
    Lit("Project \"" \o projectName \o "\" not found.") \o <<NL, NL>>
    \o Lit("Available projects:") \o <<NL>> \o ProjectList(cfg)

\* executor.ts:135
ErrorText(message) == Lit("Error: " \o message)

\* executor.ts:206-222
formatPermissionDescription(toolName, input) ==
    CASE toolName = "Edit" -> "Edit file: " \o Str(input.file_path)
      [] toolName = "Write" -> "Create/overwrite file: " \o Str(input.file_path)
      [] toolName = "Bash" ->
            LET c == Str(input.command)
            IN  "Run command: " \o (IF Len(c) > 100 THEN SubSeq(c, 1, 100) ELSE c)
      [] toolName = "Read" -> "Read file: " \o Str(input.file_path)
      [] OTHER -> "Use tool " \o toolName

\* executor.ts:164: a permission id; the counter stands for the timestamp and
\* the random suffix, which give every call an id of its own
PermissionId(n) == "perm-" \o ToString(n)

\* String.prototype.trim on a rope whose white space is whole pieces
IsWhite(p) == p.s \in {"\n", " ", "\t"}

RECURSIVE TrimStart(_)
TrimStart(t) == IF t # <<>> /\ IsWhite(Head(t)) THEN TrimStart(Tail(t)) ELSE t

RECURSIVE TrimEnd(_)
TrimEnd(t) == IF t # <<>> /\ IsWhite(t[Len(t)]) THEN TrimEnd(Front(t)) ELSE t

Trim(t) == TrimEnd(TrimStart(t))

\* executor.ts:116-122: resultText after one assistant message
RECURSIVE CollectText(_, _)
CollectText(resultText, blocks) ==
    IF blocks = <<>> THEN resultText
    ELSE CollectText(IF Head(blocks) # <<>>
                     THEN resultText \o Head(blocks) \o <<NL>> ELSE resultText,
                     Tail(blocks))

\* executor.ts:117-118: the blocks of a message that have a non-empty text
TextBlocks(blocks) == SelectSeq(blocks, LAMBDA b : b # <<>>)

\* the final text preferring the result string to the assistant text
FinalTextResultFirst(resultText, result) ==
    IF Truthy(result) THEN Lit(result)
    ELSE IF Trim(resultText) # <<>> THEN Trim(resultText)
    ELSE Lit("Done.")

\* executor.ts:126
FinalText(resultText, result) ==
    IF Trim(resultText) # <<>> THEN Trim(resultText)
    ELSE IF Truthy(result) THEN Lit(result)
    ELSE Lit("Done.")

NoReq == [id |-> "", chatId |-> "", userId |-> "", projectName |-> "", sessionId |-> Undef]
NoRun == [cwd |-> Undef, resume |-> Undef]
NoCall == [tool |-> "", input |-> Input(Undef, Undef)]
NoVerdict == [behavior |-> "none", updatedInput |-> Input(Undef, Undef),
              message |-> "", permId |-> "", by |-> "", at |-> 0]

\* One claude-code:request and the run it starts.
\*   pc       new: not yet published; running: executeRequest awaits the
\*            agent's next event; done: executeRequest has returned
\*   started  the options query() was called with (NoRun: never called)
\*   wait     the number of the permission promise handlePermission awaits (0: none)
\*   call     the tool call handlePermission was invoked for
\*   verdict  what handlePermission last returned to the agent runtime, with
\*            the permission request it answers and what settled that (permId,
\*            by; empty for an answer from the store) and the number of the
\*            agent event it answers when it comes from the store (at)
\*   inits    how many system/init messages the run has delivered
\*   fragments  the non-empty text blocks of the run's assistant messages, in
\*            arrival order
\*   result   the result string of the run's last result message
\*   error    the message of the exception the catch block caught (Undef: none)
\* executeRequest has returned: its local variables are gone, and so is the
\* run that took the verdicts.
Returned(slot) ==
    [slot EXCEPT !.pc = "done", !.currentSessionId = Undef, !.resultText = <<>>,
                 !.verdict = NoVerdict, !.inits = 0, !.fragments = <<>>,
                 !.result = Undef]

NewSlot ==
    [pc |-> "new", req |-> NoReq, started |-> NoRun, currentSessionId |-> Undef,
     resultText |-> <<>>, wait |-> 0, call |-> NoCall,
     verdict |-> NoVerdict, inits |-> 0, fragments |-> <<>>, result |-> Undef,
     error |-> Undef]

\* The stores the executor runs start from.
ExecMemories ==
    { EmptyMemory,
      ("blog" :> [allowed |-> <<Rule("Edit", "/s/**/*.md", Undef, Undef)>>,
                  denied |-> <<Rule("Bash", Undef, "git status", Undef)>>]) }

\* What the agent runtime delivers.
InitSessions == {"s1", "s2"}
AssistantContents ==
    { << <<>>, Lit("ok") >>, << Lit(" ") >>, << Lit("a"), Lit("b") >> }
ResultStrings == {Undef, "", "sum"}
ExecCalls ==
    { [tool |-> "Edit", input |-> Input("/s/b.md", Undef)],
      [tool |-> "Bash", input |-> Input(Undef, "git status")] }
ErrorMessages == {"boom"}

\* No message is being parsed.
NoParse == [pc |-> "done", typed |-> [form |-> "", name |-> "", prompt |-> ""],
            text |-> "", result |-> Null]

\* CONFIG_PATH does not exist.
Missing == [allowedUserId |-> "<no file>", projects |-> <<>>]
NoUpdate == [n |-> 0, kind |-> "none", userId |-> "", chatId |-> "", data |-> ""]
NoRegOp == [op |-> "none", arg |-> "", result |-> Undef]
NoConvOp == [op |-> "none", chatId |-> "", n |-> 0, before |-> <<>>]

\* No chat update is being handled, the registry file is the one loaded, no
\* lookup was made, and there are no conversations.
SideIdle ==
    /\ parsed = NoParse
    /\ update = NoUpdate
    /\ incoming = <<>>
    /\ replies = <<>>
    /\ typing = <<>>
    /\ configFile = config
    /\ regOp = NoRegOp
    /\ conversations = EmptyMemory
    /\ convOp = NoConvOp

\* The executor before any request, for the runs that do not step it.
RunIdle ==
    /\ activeSessions = EmptyMemory
    /\ clock = 0
    /\ slots = [s \in Slots |-> NewSlot]
    /\ delivered = 0
    /\ pendingPermissions = {}
    /\ promises = <<>>
    /\ timers = {}
    /\ permRequests = <<>>
    /\ cleared = {}

ExecIdle ==
    /\ config = OperatorConfig
    /\ RunIdle
    /\ SideIdle

ExecInit ==
    /\ config \in LoadedConfigs
    /\ memory \in ExecMemories
    /\ disk = memory
    /\ permOp = NoOp
    /\ storeOps = 0
    /\ chunker = IdleChunker
    /\ responses = [s \in Slots |-> <<>>]
    /\ activeSessions = EmptyMemory
    /\ clock = 0
    /\ slots = [s \in Slots |-> NewSlot]
    /\ delivered = 0
    /\ pendingPermissions = {}
    /\ promises = <<>>
    /\ timers = {}
    /\ permRequests = <<>>
    /\ cleared = {}
    /\ SideIdle

\* A resolved promise's continuation runs before any other event is handled.
NoMicrotask == \A i \in 1..Len(promises) : promises[i].state # "resolved"

Publish(s, events) == responses' = [responses EXCEPT ![s] = @ \o events]

\* telegram.ts:157-169 and executor.ts:49-104: the request is published with
\* the chat's current session and executeRequest runs up to its first await.
\* Date.now() stamps every request later than the one before; the executor
\* keys nothing on the request id.
RequestStart(s, inputs) ==
    /\ slots[s].pc = "new"
    /\ NoMicrotask
    /\ \A r \in Slots : r < s => slots[r].pc # "new"
    /\ \E in \in inputs, now \in {clock + 1} :
          LET chatId == in.chatId
              userId == in.userId
              projectName == in.projectName
              req == [id |-> "cc-" \o ToString(now), chatId |-> chatId,
                      userId |-> userId, projectName |-> projectName,
                      sessionId |-> getActiveSession(activeSessions, chatId, projectName)]
              projectPath == getProject(config, projectName)
          IN  /\ clock' = now
              /\ cleared' = cleared \ {SessionKey(chatId, projectName)}
              /\ IF ~isAuthorizedUser(config, userId)
                 THEN /\ Publish(s, <<Response(req.id, chatId, RefusalText, Undef, Undef)>>)
                      /\ slots' = [slots EXCEPT ![s].pc = "done", ![s].req = req]
                 ELSE IF ~Truthy(projectPath)
                 THEN /\ Publish(s, <<Response(req.id, chatId,
                                        NotFoundText(config, projectName), Undef, Undef)>>)
                      /\ slots' = [slots EXCEPT ![s].pc = "done", ![s].req = req]
                 ELSE /\ UNCHANGED responses
                      /\ slots' = [slots EXCEPT ![s].pc = "running", ![s].req = req,
                                      ![s].started = [cwd |-> projectPath,
                                                      resume |-> req.sessionId],
                                      ![s].currentSessionId = req.sessionId]
    /\ UNCHANGED <<config, memory, disk, permOp, storeOps, chunker, activeSessions,
                   delivered, pendingPermissions, promises, timers, permRequests>>

\* a request published with nothing else going on at the chat side
Request(s, inputs) == RequestStart(s, inputs) /\ UNCHANGED sideVars

\* The agent may deliver its next event: the run is being consumed, no tool
\* call of it is waiting for a verdict, and the event budget is not spent.
CanDeliver(s) ==
    /\ slots[s].pc = "running"
    /\ slots[s].wait = 0
    /\ delivered < MaxEvents
    /\ NoMicrotask

\* executor.ts:107-113: a system/init message
AgentInit(s) ==
    /\ CanDeliver(s)
    /\ \E sid \in InitSessions :
          /\ slots' = [slots EXCEPT ![s].currentSessionId = sid, ![s].inits = @ + 1]
          /\ delivered' = delivered + 1
          /\ activeSessions' =
                IF Truthy(sid)
                THEN SetSession(activeSessions, slots[s].req.chatId,
                                slots[s].req.projectName, sid)
                ELSE activeSessions
    /\ UNCHANGED <<sideVars, config, memory, disk, permOp, storeOps, chunker, responses, clock,
                   pendingPermissions, promises, timers, permRequests, cleared>>

\* executor.ts:115-122: an assistant message
AgentAssistant(s) ==
    /\ CanDeliver(s)
    /\ \E blocks \in AssistantContents :
          /\ slots' = [slots EXCEPT ![s].resultText = CollectText(@, blocks),
                                  ![s].fragments = @ \o TextBlocks(blocks)]
          /\ delivered' = delivered + 1
    /\ UNCHANGED <<sideVars, config, memory, disk, permOp, storeOps, chunker, responses, clock,
                   activeSessions, cleared, pendingPermissions, promises, timers, permRequests>>

\* executor.ts:124-128: a result message
AgentResult(s, results) ==
    /\ CanDeliver(s)
    /\ \E result \in results :
          /\ Publish(s, SendChunkedResponse(slots[s].req.id, slots[s].req.chatId,
                                            FinalText(slots[s].resultText, result),
                                            slots[s].currentSessionId))
          /\ slots' = [slots EXCEPT ![s].result = result]
          /\ delivered' = delivered + 1
    /\ UNCHANGED <<sideVars, config, memory, disk, permOp, storeOps, chunker, clock,
                   activeSessions, cleared, pendingPermissions, promises, timers, permRequests>>

\* the answer from the store with the allow verdict dropping the input
CachedVerdictNoInput(cached, input, at) ==
    IF cached = "allowed"
    THEN [behavior |-> "allow", updatedInput |-> Input(Undef, Undef), message |-> "",
          permId |-> "", by |-> "", at |-> at]
    ELSE [behavior |-> "deny", updatedInput |-> Input(Undef, Undef),
          message |-> "This action was previously denied.", permId |-> "",
          by |-> "", at |-> at]

\* executor.ts:150-161: handlePermission answers from the permission store
CachedVerdict(cached, input, at) ==
    IF cached = "allowed"
    THEN [behavior |-> "allow", updatedInput |-> input, message |-> "",
          permId |-> "", by |-> "", at |-> at]
    ELSE [behavior |-> "deny", updatedInput |-> Input(Undef, Undef),
          message |-> "This action was previously denied.", permId |-> "",
          by |-> "", at |-> at]

\* the answer from the user's decision, allowing whatever was decided
AskedVerdictAllow(approved, input, permId, by) ==
    [behavior |-> "allow", updatedInput |-> input, message |-> "",
     permId |-> permId, by |-> by, at |-> 0]

\* executor.ts:199-203: handlePermission answers from the user's decision
AskedVerdict(approved, input, permId, by) ==
    IF approved
    THEN [behavior |-> "allow", updatedInput |-> input, message |-> "",
          permId |-> permId, by |-> by, at |-> 0]
    ELSE [behavior |-> "deny", updatedInput |-> Input(Undef, Undef),
          message |-> "User denied permission.", permId |-> permId, by |-> by,
          at |-> 0]

\* executor.ts:170-177
PermissionRequest(permId, chatId, projectName, call) ==
    [requestId |-> permId, chatId |-> chatId, projectName |-> projectName,
     toolName |-> call.tool, toolInput |-> call.input,
     description |-> formatPermissionDescription(call.tool, call.input)]

NoResult == [approved |-> FALSE, remember |-> FALSE]

\* executor.ts:180-191: the promise handlePermission awaits.
\*   state  pending; resolved: settled with `result`, the awaiting
\*          handlePermission not yet resumed; consumed: it has resumed
\*   by     what settled it: the response handler or the timer
NewPromise(s) ==
    [owner |-> s, state |-> "pending", resolveCalls |-> 0,
     result |-> NoResult, by |-> ""]

\* resolve(result): only the first call settles a promise
Resolve(p, result, by) ==
    [p EXCEPT !.resolveCalls = @ + 1,
              !.state = IF p.state = "pending" THEN "resolved" ELSE @,
              !.result = IF p.state = "pending" THEN result ELSE @,
              !.by = IF p.state = "pending" THEN by ELSE @]

\* executor.ts:94-102, 140-192: the agent asks to use a tool; handlePermission
\* runs up to its return or its await
AgentToolCall(s) ==
    /\ CanDeliver(s)
    /\ delivered' = delivered + 1
    /\ \E call \in ExecCalls :
          LET cached == checkPermission(memory, slots[s].req.projectName,
                                        call.tool, call.input)
              n == Len(promises) + 1
          IN  IF cached \in {"allowed", "denied"}
              THEN /\ slots' = [slots EXCEPT ![s].call = call,
                          ![s].verdict = CachedVerdict(cached, call.input, delivered + 1)]
                   /\ UNCHANGED <<pendingPermissions, promises, timers, permRequests>>
              ELSE /\ n <= MaxEvents
                   /\ permRequests' = Append(permRequests,
                         PermissionRequest(PermissionId(n), slots[s].req.chatId,
                                           slots[s].req.projectName, call))
                   /\ promises' = Append(promises, NewPromise(s))
                   /\ pendingPermissions' = pendingPermissions \cup {PermissionId(n)}
                   /\ timers' = timers \cup {n}
                   /\ slots' = [slots EXCEPT ![s].call = call, ![s].wait = n,
                                   ![s].verdict = NoVerdict]
    /\ UNCHANGED <<sideVars, config, memory, disk, permOp, storeOps, chunker, responses, clock,
                   activeSessions, cleared>>

\* the catch block publishing the error twice
AgentThrowTwice(s) ==
    /\ slots[s].pc = "running"
    /\ NoMicrotask
    /\ \E message \in ErrorMessages :
          /\ Publish(s, <<Response(slots[s].req.id, slots[s].req.chatId,
                                   ErrorText(message), Undef, Undef),
                          Response(slots[s].req.id, slots[s].req.chatId,
                                   ErrorText(message), Undef, Undef)>>)
          /\ slots' = [slots EXCEPT ![s] = [Returned(@) EXCEPT !.error = message]]
    /\ UNCHANGED <<sideVars, config, memory, disk, permOp, storeOps, chunker, clock, delivered,
                   activeSessions, cleared, pendingPermissions, promises, timers,
                   permRequests>>

\* executor.ts:130-137: the run throws; the agent runtime may fail at any
\* point of the run, a tool call waiting for its verdict included
AgentThrow(s) ==
    /\ slots[s].pc = "running"
    /\ NoMicrotask
    /\ \E message \in ErrorMessages :
          /\ Publish(s, <<Response(slots[s].req.id, slots[s].req.chatId,
                                   ErrorText(message), Undef, Undef)>>)
          /\ slots' = [slots EXCEPT ![s] = [Returned(@) EXCEPT !.error = message]]
    /\ UNCHANGED <<sideVars, config, memory, disk, permOp, storeOps, chunker, clock, delivered,
                   activeSessions, cleared, pendingPermissions, promises, timers, permRequests>>

\* executor.ts:106, 129: the stream ends and executeRequest returns
AgentEnd(s) ==
    /\ slots[s].pc = "running"
    /\ slots[s].wait = 0
    /\ NoMicrotask
    /\ slots' = [slots EXCEPT ![s] = Returned(@)]
    /\ UNCHANGED <<sideVars, config, memory, disk, permOp, storeOps, chunker, responses, clock,
                   delivered, activeSessions, cleared, pendingPermissions, promises, timers,
                   permRequests>>

\* the stream ending without its result message
AgentTerminalSilent(s, results) == AgentEnd(s)

\* executor.ts:124-129: the terminal result message of the stream is handled,
\* the stream ends and executeRequest returns
AgentTerminal(s, results) ==
    /\ slots[s].pc = "running"
    /\ slots[s].wait = 0
    /\ NoMicrotask
    /\ \E result \in results :
          Publish(s, SendChunkedResponse(slots[s].req.id, slots[s].req.chatId,
                                         FinalText(slots[s].resultText, result),
                                         slots[s].currentSessionId))
    /\ slots' = [slots EXCEPT ![s] = Returned(@)]
    /\ UNCHANGED <<sideVars, config, memory, disk, permOp, storeOps, chunker, clock,
                   delivered, activeSessions, cleared, pendingPermissions, promises, timers,
                   permRequests>>

\* the response handler leaving the entry in the table
PermissionResponseKeepsEntry(n) ==
    /\ n \in 1..Len(permRequests)
    /\ NoMicrotask
    /\ \E approved \in BOOLEAN, rememberChoice \in BOOLEAN :
          IF permRequests[n].requestId \in pendingPermissions
          THEN /\ promises' = [promises EXCEPT ![n] =
                     Resolve(@, [approved |-> approved, remember |-> rememberChoice],
                             "response")]
               /\ UNCHANGED pendingPermissions
          ELSE UNCHANGED <<promises, pendingPermissions>>
    /\ UNCHANGED <<sideVars, config, memory, disk, permOp, storeOps, chunker, responses, clock,
                   delivered, activeSessions, cleared, slots, timers, permRequests>>

\* the response handler resolving every wait of the table
PermissionResponseToAll(n) ==
    /\ n \in 1..Len(permRequests)
    /\ NoMicrotask
    /\ \E approved \in BOOLEAN, rememberChoice \in BOOLEAN :
          IF permRequests[n].requestId \in pendingPermissions
          THEN /\ promises' = [m \in 1..Len(promises) |->
                     IF permRequests[m].requestId \in pendingPermissions
                     THEN Resolve(promises[m],
                                  [approved |-> approved, remember |-> rememberChoice],
                                  "response")
                     ELSE promises[m]]
               /\ pendingPermissions' = {}
          ELSE UNCHANGED <<promises, pendingPermissions>>
    /\ UNCHANGED <<sideVars, config, memory, disk, permOp, storeOps, chunker, responses, clock,
                   delivered, activeSessions, cleared, slots, timers, permRequests>>

\* telegram.ts:47-60 and executor.ts:34-46: a button of a published
\* permission request is pressed and its response is handled
PermissionResponse(n) ==
    /\ n \in 1..Len(permRequests)
    /\ NoMicrotask
    /\ \E approved \in BOOLEAN, rememberChoice \in BOOLEAN :
          IF permRequests[n].requestId \in pendingPermissions
          THEN /\ promises' = [promises EXCEPT ![n] =
                     Resolve(@, [approved |-> approved, remember |-> rememberChoice],
                             "response")]
               /\ pendingPermissions' = pendingPermissions \ {permRequests[n].requestId}
          ELSE UNCHANGED <<promises, pendingPermissions>>
    /\ UNCHANGED <<sideVars, config, memory, disk, permOp, storeOps, chunker, responses, clock,
                   delivered, activeSessions, cleared, slots, timers, permRequests>>

\* the timer resolving the wait and leaving the entry in the table
PermissionTimeoutKeepsEntry(n) ==
    /\ n \in timers
    /\ NoMicrotask
    /\ timers' = timers \ {n}
    /\ IF PermissionId(n) \in pendingPermissions
       THEN /\ UNCHANGED pendingPermissions
            /\ promises' = [promises EXCEPT ![n] =
                  Resolve(@, [approved |-> FALSE, remember |-> FALSE], "timeout")]
       ELSE UNCHANGED <<pendingPermissions, promises>>
    /\ UNCHANGED <<sideVars, config, memory, disk, permOp, storeOps, chunker, responses, clock,
                   delivered, activeSessions, cleared, slots, permRequests>>

\* the timer resolving the wait as a remembered denial
PermissionTimeoutRemembers(n) ==
    /\ n \in timers
    /\ NoMicrotask
    /\ timers' = timers \ {n}
    /\ IF PermissionId(n) \in pendingPermissions
       THEN /\ pendingPermissions' = pendingPermissions \ {PermissionId(n)}
            /\ promises' = [promises EXCEPT ![n] =
                  Resolve(@, [approved |-> FALSE, remember |-> TRUE], "timeout")]
       ELSE UNCHANGED <<pendingPermissions, promises>>
    /\ UNCHANGED <<sideVars, config, memory, disk, permOp, storeOps, chunker, responses, clock,
                   delivered, activeSessions, cleared, slots, permRequests>>

\* executor.ts:185-190: the 5-minute timer of a permission request fires
PermissionTimeout(n) ==
    /\ n \in timers
    /\ NoMicrotask
    /\ timers' = timers \ {n}
    /\ IF PermissionId(n) \in pendingPermissions
       THEN /\ pendingPermissions' = pendingPermissions \ {PermissionId(n)}
            /\ promises' = [promises EXCEPT ![n] =
                  Resolve(@, [approved |-> FALSE, remember |-> FALSE], "timeout")]
       ELSE UNCHANGED <<pendingPermissions, promises>>
    /\ UNCHANGED <<sideVars, config, memory, disk, permOp, storeOps, chunker, responses, clock,
                   delivered, activeSessions, cleared, slots, permRequests>>

\* executor.ts:194-203: handlePermission resumes with the promise's result
PermissionResume(s) ==
    /\ slots[s].wait # 0
    /\ promises[slots[s].wait].state = "resolved"
    /\ LET n == slots[s].wait
           result == promises[n].result
           call == slots[s].call
           projectName == slots[s].req.projectName
       IN  /\ memory' = IF result.remember
                        THEN rememberMemory(memory, projectName, call.tool,
                                            call.input, result.approved)
                        ELSE memory
           /\ disk' = IF result.remember /\ rememberSaves(memory, projectName, call.tool,
                                                          call.input, result.approved)
                      THEN memory' ELSE disk
           /\ promises' = [promises EXCEPT ![n].state = "consumed",
                                           ![n].result = NoResult, ![n].by = ""]
           /\ slots' = [slots EXCEPT ![s].wait = 0, ![s].call = NoCall,
                           ![s].verdict = AskedVerdict(result.approved, call.input,
                                                       PermissionId(n),
                                                       promises[n].by)]
    /\ UNCHANGED <<sideVars, config, permOp, storeOps, chunker, responses, clock, delivered,
                   activeSessions, cleared, pendingPermissions, timers, permRequests>>

\* telegram.ts:136-139 and executor.ts:281-283: /code-clear <project> in a chat
ClearSession ==
    /\ NoMicrotask
    /\ \E chatId \in Chats, projectName \in {"blog"} :
          /\ activeSessions' = clearSessionMap(activeSessions, chatId, projectName)
          /\ cleared' = cleared \cup {SessionKey(chatId, projectName)}
    /\ UNCHANGED <<sideVars, config, memory, disk, permOp, storeOps, chunker, responses, clock,
                   slots, delivered, pendingPermissions, promises, timers, permRequests>>

\* The permission protocol: requests, their tool calls and the answers.  The
\* runs deliver tool calls only.
Next ==
    \/ \E s \in Slots : Request(s, ProtocolInputs)
    \/ \E s \in Slots : AgentToolCall(s)
    \/ \E s \in Slots : AgentThrow(s)
    \/ \E s \in Slots : AgentEnd(s)
    \/ \E n \in 1..MaxEvents : PermissionResponse(n)
    \/ \E n \in 1..MaxEvents : PermissionTimeout(n)
    \/ \E s \in Slots : PermissionResume(s)

Spec == ExecInit /\ [][Next]_vars

\* Timers fire and continuations of settled promises run: the event loop
\* serves its timer queue and its microtask queue for as long as it lives.
Fairness ==
    /\ \A n \in 1..MaxEvents : WF_vars(PermissionTimeout(n))
    /\ \A s \in Slots : WF_vars(PermissionResume(s))

SpecLive == ExecInit /\ [][Next]_vars /\ Fairness

\* The stream of a run: session capture, text collection and delivery.  The
\* runs make no tool calls.
RunNext ==
    \/ \E s \in Slots : Request(s, RequestInputs)
    \/ \E s \in Slots : AgentInit(s)
    \/ \E s \in Slots : AgentAssistant(s)
    \/ \E s \in Slots : AgentResult(s, ResultStrings)
    \/ \E s \in Slots : AgentThrow(s)
    \/ \E s \in Slots : AgentEnd(s)
    \/ ClearSession

SpecRun == ExecInit /\ [][RunNext]_vars

\* Whole runs: requests of every kind, tool calls with their permission
\* waits, and streams that throw or end with their result message.
AnswerNext ==
    \/ \E s \in Slots : Request(s, RequestInputs)
    \/ \E s \in Slots : AgentToolCall(s)
    \/ \E s \in Slots : AgentThrow(s)
    \/ \E s \in Slots : AgentTerminal(s, ResultStrings)
    \/ \E n \in 1..MaxEvents : PermissionResponse(n)
    \/ \E n \in 1..MaxEvents : PermissionTimeout(n)
    \/ \E s \in Slots : PermissionResume(s)

\* The stream of every run ends, timers fire, continuations run.
SpecAnswer ==
    /\ ExecInit
    /\ [][AnswerNext]_vars
    /\ Fairness
    /\ \A s \in Slots : WF_vars(AgentTerminal(s, ResultStrings))

\* ---------------------------------------------- inputs of the chunking runs
Half == MAX_CHUNK_SIZE \div 2
LineLens == {0, 1, Half - 1, Half, Half + 1, MAX_CHUNK_SIZE - 1, MAX_CHUNK_SIZE,
             MAX_CHUNK_SIZE + 1, MAX_CHUNK_SIZE + 998, 2 * MAX_CHUNK_SIZE + 1000}

\* The text whose lines have the lengths lens: line k is a run of BODY and the
\* lines are joined by newlines, so every character of the text is its own.
RECURSIVE TextOfLines(_, _)
TextOfLines(lens, off) ==
    IF lens = <<>> THEN <<>>
    ELSE Lit("") \o (IF Head(lens) = 0 THEN <<>> ELSE <<Piece("BODY", off, Head(lens))>>)
         \o (IF Len(lens) > 1 THEN <<NL>> ELSE <<>>)
         \o TextOfLines(Tail(lens), off + Head(lens))

LineSeqs == UNION {[1..k -> LineLens] : k \in 1..MaxLines}
ChunkTexts == {TextOfLines(ls, 0) : ls \in LineSeqs}
SessionIds == {"s1", "s2"}

\* sendChunkedResponse stepped through its loop (executor.ts:224-275).
ChunkInit ==
    /\ \E t \in ChunkTexts, sid \in {Undef, "s1"} :
          chunker = [pc |-> "entry", text |-> t, sessionId |-> sid,
                     remaining |-> <<>>, chunks |-> <<>>]
    /\ responses = [s \in Slots |-> <<>>]
    /\ memory = EmptyMemory
    /\ disk = EmptyMemory
    /\ permOp = NoOp
    /\ storeOps = 0
    /\ ExecIdle

\* the entry of sendChunkedResponse publishing a short text without its session
ChunkEntryNoSession ==
    /\ chunker.pc = "entry"
    /\ IF TLen(chunker.text) <= MAX_CHUNK_SIZE
       THEN /\ Publish(1, <<Response("cc-1", "c1", chunker.text, Undef, Undef)>>)
            /\ chunker' = [chunker EXCEPT !.pc = "done"]
       ELSE /\ chunker' = [chunker EXCEPT !.pc = "loop", !.remaining = chunker.text]
            /\ UNCHANGED responses

\* executor.ts:232-244
ChunkEntry ==
    /\ chunker.pc = "entry"
    /\ IF TLen(chunker.text) <= MAX_CHUNK_SIZE
       THEN /\ Publish(1, <<Response("cc-1", "c1", chunker.text,
                                      chunker.sessionId, Undef)>>)
            /\ chunker' = [chunker EXCEPT !.pc = "done"]
       ELSE /\ chunker' = [chunker EXCEPT !.pc = "loop", !.remaining = chunker.text]
            /\ UNCHANGED responses

\* executor.ts:246-259, one iteration
ChunkLoop ==
    /\ chunker.pc = "loop"
    /\ UNCHANGED responses
    /\ IF TLen(chunker.remaining) = 0
       THEN chunker' = [chunker EXCEPT !.pc = "send"]
       ELSE IF TLen(chunker.remaining) <= MAX_CHUNK_SIZE
       THEN chunker' = [chunker EXCEPT !.pc = "send",
                           !.chunks = Append(chunker.chunks, chunker.remaining)]
       ELSE chunker' = [chunker EXCEPT
                           !.chunks = Append(chunker.chunks, NextChunk(chunker.remaining)),
                           !.remaining = NextRemaining(chunker.remaining)]

\* executor.ts:261-274
ChunkSend ==
    /\ chunker.pc = "send"
    /\ Publish(1, ChunkEvents("cc-1", "c1", chunker.chunks, chunker.sessionId))
    /\ chunker' = [chunker EXCEPT !.pc = "done"]

ChunkNext ==
    \/ ChunkEntry /\ UNCHANGED <<permVars, execVars>>
    \/ ChunkLoop /\ UNCHANGED <<permVars, execVars>>
    \/ ChunkSend /\ UNCHANGED <<permVars, execVars>>

SpecChunk == ChunkInit /\ [][ChunkNext]_vars

\* The function is synchronous code: once entered it runs to its return.
SpecChunkLive == SpecChunk /\ WF_vars(ChunkNext)

\* ------------------------------------------- the permission store on its own
PermInitAll ==
    /\ PermInit
    /\ chunker = IdleChunker
    /\ responses = [s \in Slots |-> <<>>]
    /\ ExecIdle

PermNext ==
    \/ PermCheck /\ UNCHANGED <<chunkVars, execVars>>
    \/ PermRemember /\ UNCHANGED <<chunkVars, execVars>>
    \/ PermClear /\ UNCHANGED <<chunkVars, execVars>>

SpecPerm == PermInitAll /\ [][PermNext]_vars

\* ------------------------------------- one remembered decision and its reach
\* The stores a decision is remembered in or a project is cleared from: empty,
\* rules of another project only, rules of both projects.
RuleMemories ==
    { EmptyMemory,
      ("work" :> [allowed |-> <<Rule("Edit", "/w/**/*.md", Undef, Undef)>>,
                  denied |-> <<>>]),
      ("blog" :> [allowed |-> <<Rule("Edit", "/s/**/*.md", Undef, Undef)>>,
                  denied |-> <<Rule("Bash", Undef, "git status", Undef)>>])
        @@ ("work" :> [allowed |-> <<Rule("Edit", "/w/**/*.md", Undef, Undef)>>,
                       denied |-> <<>>]) }

\* The project names the store is called with: two of the registry, and one
\* that is also a property of Object.prototype.
RuleProjects == {"blog", "work", "constructor"}

\* The tool calls whose decision is remembered.
RuleCalls ==
    { [tool |-> "Edit", input |-> Input("/s/p/a.md", Undef)],
      [tool |-> "Edit", input |-> Input("/s/.env", Undef)],
      [tool |-> "Write", input |-> Input("/s/Makefile", Undef)],
      [tool |-> "Bash", input |-> Input(Undef, "git status")],
      [tool |-> "Bash", input |-> Input(Undef, "")] }

\* The tool calls checked afterwards.
RuleChecks ==
    { [tool |-> "Edit", input |-> Input("/s/p/a.md", Undef)],
      [tool |-> "Edit", input |-> Input("/s/p/q/b.md", Undef)],
      [tool |-> "Edit", input |-> Input("/s/p/c.json", Undef)],
      [tool |-> "Edit", input |-> Input("/s/x.md", Undef)],
      [tool |-> "Edit", input |-> Input("/s/.env", Undef)],
      [tool |-> "Write", input |-> Input("/s/Makefile", Undef)],
      [tool |-> "Write", input |-> Input("/s/p/Makefile", Undef)],
      [tool |-> "Write", input |-> Input("/s/p/a.md", Undef)],
      [tool |-> "Bash", input |-> Input(Undef, "git status")],
      [tool |-> "Bash", input |-> Input(Undef, "git status -s")],
      [tool |-> "Bash", input |-> Input(Undef, "rm -rf x")] }

RuleInit ==
    /\ memory \in RuleMemories
    /\ disk = memory
    /\ permOp = NoOp
    /\ storeOps = 0
    /\ chunker = IdleChunker
    /\ responses = [s \in Slots |-> <<>>]
    /\ ExecIdle

\* the one call of remember
RuleRemember ==
    \E p \in RuleProjects, c \in RuleCalls, a \in BOOLEAN :
        /\ storeOps = 0
        /\ storeOps' = 1
        /\ memory' = rememberMemory(memory, p, c.tool, c.input, a)
        /\ disk' = IF rememberSaves(memory, p, c.tool, c.input, a) THEN memory' ELSE disk
        /\ permOp' = [op |-> "remember", project |-> p, tool |-> c.tool,
                      input |-> c.input, allowed |-> a,
                      result |-> rememberOutcome(memory, p, c.tool, c.input, a)]

\* or the one call of clearProject
RuleClear ==
    \E p \in RuleProjects :
        /\ storeOps = 0
        /\ storeOps' = 1
        /\ memory' = clearProjectMemory(memory, p)
        /\ disk' = memory'
        /\ permOp' = [op |-> "clear", project |-> p, tool |-> "",
                      input |-> Input(Undef, Undef), allowed |-> FALSE, result |-> ""]

\* a call of checkPermission
RuleCheck ==
    \E p \in RuleProjects, c \in RuleChecks :
        /\ permOp' = [op |-> "check", project |-> p, tool |-> c.tool,
                      input |-> c.input, allowed |-> FALSE,
                      result |-> checkPermission(memory, p, c.tool, c.input)]
        /\ UNCHANGED <<memory, disk, storeOps>>

RuleNext ==
    \/ RuleRemember /\ UNCHANGED <<chunkVars, execVars>>
    \/ RuleClear /\ UNCHANGED <<chunkVars, execVars>>
    \/ RuleCheck /\ UNCHANGED <<chunkVars, execVars>>

SpecRule == RuleInit /\ [][RuleNext]_vars

\* ------------------------------------------------- the parser on its own
\* The registries the parser runs against: the operator's, the empty one, one
\* whose second project has a numeric name, one whose key has a capital.
ParseConfigs ==
    { OperatorConfig,
      DefaultConfig,
      [allowedUserId |-> "u1",
       projects |-> << [name |-> "work", path |-> "/w"],
                       [name |-> "2048", path |-> "/g"] >>],
      [allowedUserId |-> "u1",
       projects |-> << [name |-> "Work", path |-> "/w"] >>] }

\* What the user means to type: a form, the project name as typed, a prompt.
NameForms == {"code", "at", "in,", "in:", "clear", "perms"}
TypedNames == {"work", "Work", "WORK", "nope", "constructor", "2048"}

\* Messages that are no command: chat, and forms with a part missing.
ChatTexts ==
    {"just chatting", "", "in work fix it", "@work", "/code work", "cc",
     "incident: all good", "/code-clear", "/projects now"}

TypedInputs ==
    { [form |-> f, name |-> n, prompt |-> "fix bug"] :
          f \in NameForms, n \in TypedNames }
    \cup { [form |-> "cc", name |-> "", prompt |-> "fix bug"],
           [form |-> "projects", name |-> "", prompt |-> ""] }
    \cup { [form |-> "chat", name |-> "", prompt |-> t] : t \in ChatTexts }

\* The message text of a typed input.
Render(typed) ==
    CASE typed.form = "code" -> "/code " \o typed.name \o " " \o typed.prompt
      [] typed.form = "at" -> "@" \o typed.name \o " " \o typed.prompt
      [] typed.form = "in," -> "in " \o typed.name \o ", " \o typed.prompt
      [] typed.form = "in:" -> "In " \o typed.name \o ": " \o typed.prompt
      [] typed.form = "clear" -> "/code-clear " \o typed.name
      [] typed.form = "perms" -> " /code-permissions  " \o typed.name \o " "
      [] typed.form = "cc" -> "cc " \o typed.prompt
      [] typed.form = "projects" -> "/Projects"
      [] OTHER -> typed.prompt

ParseInit ==
    /\ config \in ParseConfigs
    /\ \E typed \in TypedInputs :
          parsed = [pc |-> "entry", typed |-> typed, text |-> Render(typed),
                    result |-> Null]
    /\ PermInit
    /\ chunker = IdleChunker
    /\ responses = [s \in Slots |-> <<>>]
    /\ activeSessions = EmptyMemory
    /\ clock = 0
    /\ slots = [s \in Slots |-> NewSlot]
    /\ delivered = 0
    /\ pendingPermissions = {}
    /\ promises = <<>>
    /\ timers = {}
    /\ permRequests = <<>>
    /\ cleared = {}
    /\ update = NoUpdate
    /\ incoming = <<>>
    /\ replies = <<>>
    /\ typing = <<>>
    /\ configFile = config
    /\ regOp = NoRegOp
    /\ conversations = EmptyMemory
    /\ convOp = NoConvOp

\* telegram.ts:24: parseClaudeCodeCommand(text)
Parse ==
    /\ parsed.pc = "entry"
    /\ parsed' = [parsed EXCEPT !.pc = "done",
                                !.result = parseClaudeCodeCommand(config, parsed.text)]
    /\ UNCHANGED <<config, memory, disk, permOp, storeOps, chunker, responses,
                   activeSessions, clock, slots, delivered, pendingPermissions,
                   promises, timers, permRequests, cleared, telegramVars,
                   configFile, regOp, conversations, convOp>>

SpecParse == ParseInit /\ [][Parse]_vars

\* ------------------------------------------------- the registry on its own
\* What CONFIG_PATH holds when the process starts: nothing, or a registry.
RegistryFiles == {Missing} \cup ParseConfigs

\* mcp/client.ts:157-169: what loadConfig returns for the file
loadConfig(file) == IF file = Missing THEN DefaultConfig ELSE file

\* mcp/client.ts:158-165: what loadConfig leaves in the file
FileAfterLoad(file) == IF file = Missing THEN DefaultConfig ELSE file

LoadOp(file) ==
    [op |-> "loadConfig", arg |-> IF file = Missing THEN "no file" ELSE "file",
     result |-> Undef]

\* mcp/client.ts:152-155: the constructor loads the registry
RegistryInit ==
    /\ \E file \in RegistryFiles :
          /\ config = loadConfig(file)
          /\ configFile = FileAfterLoad(file)
          /\ regOp = LoadOp(file)
    /\ memory = EmptyMemory
    /\ disk = EmptyMemory
    /\ permOp = NoOp
    /\ storeOps = 0
    /\ chunker = IdleChunker
    /\ responses = [s \in Slots |-> <<>>]
    /\ RunIdle
    /\ parsed = NoParse
    /\ update = NoUpdate
    /\ incoming = <<>>
    /\ replies = <<>>
    /\ typing = <<>>
    /\ conversations = EmptyMemory
    /\ convOp = NoConvOp

\* The operator edits the registry file.
Configure ==
    /\ \E file \in ParseConfigs : configFile' = file
    /\ UNCHANGED <<config, regOp>>

\* mcp/client.ts:178-180: reload()
Reload ==
    /\ config' = loadConfig(configFile)
    /\ configFile' = FileAfterLoad(configFile)
    /\ regOp' = LoadOp(configFile)

\* a boolean result, as console.log shows it
Shown(result) == IF result THEN "true" ELSE "false"

Lookup(op, arg, result) ==
    /\ regOp' = [op |-> op, arg |-> arg, result |-> result]
    /\ UNCHANGED <<config, configFile>>

\* mcp/client.ts:182-199: the lookups
LookupUser == \E userId \in Users :
    Lookup("isAuthorizedUser", userId, Shown(isAuthorizedUser(config, userId)))
LookupProject == \E name \in TypedNames :
    Lookup("getProject", name, getProject(config, name))
LookupExists == \E name \in TypedNames :
    Lookup("projectExists", name, Shown(projectExists(config, name)))

RegistryNext ==
    /\ Configure \/ Reload \/ LookupUser \/ LookupProject \/ LookupExists
    /\ UNCHANGED <<permVars, chunkVars, runVars, parsed, telegramVars,
                   conversations, convOp>>

SpecRegistry == RegistryInit /\ [][RegistryNext]_vars

\* ------------------------------------------------------- ConversationStore
\* executor.ts:296
MAX_MESSAGES == 20

\* How many calls a run of the store makes.
MaxConvCalls == 3

Message(role, content) == [role |-> role, content |-> content]

\* executor.ts:400-402: shift() while the first message is not a user's
RECURSIVE DropLeadingReplies(_)
DropLeadingReplies(messages) ==
    IF messages # <<>> /\ Head(messages).role # "user"
    THEN DropLeadingReplies(Tail(messages)) ELSE messages

\* the truncation keeping the last MAX_MESSAGES whatever the first of them is
truncateKeepsReplies(messages) ==
    IF Len(messages) > MAX_MESSAGES
    THEN SubSeq(messages, Len(messages) - MAX_MESSAGES + 1, Len(messages))
    ELSE messages

\* executor.ts:390-405: what truncateIfNeeded leaves of entry.messages
truncateIfNeeded(messages) ==
    IF Len(messages) > MAX_MESSAGES
    THEN DropLeadingReplies(
             SubSeq(messages, Len(messages) - MAX_MESSAGES + 1, Len(messages)))
    ELSE messages

\* executor.ts:380-387 ensureConversation, then entry.messages
History(convs, chatId) == IF chatId \in DOMAIN convs THEN convs[chatId] ELSE <<>>

\* The message lists setMessages is called with: by length, and by where the
\* user's messages are (odd places, even places, nowhere).
ListLengths == {0, MAX_MESSAGES - 1, MAX_MESSAGES, MAX_MESSAGES + 2}
RolePatterns == {"user first", "assistant first", "assistant only"}
RoleAt(pattern, i) ==
    CASE pattern = "user first" -> IF i % 2 = 1 THEN "user" ELSE "assistant"
      [] pattern = "assistant first" -> IF i % 2 = 0 THEN "user" ELSE "assistant"
      [] OTHER -> "assistant"
MessageList(len, pattern) == [i \in 1..len |-> Message(RoleAt(pattern, i), i)]
MessageLists == {MessageList(len, pat) : len \in ListLengths, pat \in RolePatterns}

\* A call of the store: entry.messages as the call makes it, then truncated.
\* `before` keeps the list as it was handed to truncateIfNeeded.
ConvCall(op, chatId, messages) ==
    /\ convOp.n < MaxConvCalls
    /\ conversations' = (chatId :> truncateIfNeeded(messages)) @@ conversations
    /\ convOp' = [op |-> op, chatId |-> chatId, n |-> convOp.n + 1,
                  before |-> messages]
    /\ UNCHANGED <<permVars, chunkVars, coreVars, parsed, telegramVars, configFile, regOp>>

\* executor.ts:326-337
addUserMessage ==
    \E chatId \in Chats :
        ConvCall("addUserMessage", chatId,
                 Append(History(conversations, chatId),
                        Message("user", 1000 + convOp.n)))

\* executor.ts:342-353
addAssistantMessage ==
    \E chatId \in Chats :
        ConvCall("addAssistantMessage", chatId,
                 Append(History(conversations, chatId),
                        Message("assistant", 1000 + convOp.n)))

\* executor.ts:358-365
setMessages ==
    \E chatId \in Chats, messages \in MessageLists :
        ConvCall("setMessages", chatId, messages)

\* executor.ts:301: the store starts with no conversation
ConvInit ==
    /\ memory = EmptyMemory
    /\ disk = EmptyMemory
    /\ permOp = NoOp
    /\ storeOps = 0
    /\ chunker = IdleChunker
    /\ responses = [s \in Slots |-> <<>>]
    /\ ExecIdle

ConvNext == addUserMessage \/ addAssistantMessage \/ setMessages

SpecConv == ConvInit /\ [][ConvNext]_vars

\* --------------------------------------------------------- the Telegram bot
\* How many chat updates the bot handles.
MaxUpdates == 2

\* The texts sent to the bot: chat, and a text of every kind of command.
RouteTexts ==
    {"just chatting", "/projects", "/code-clear blog", "/code-permissions blog",
     "@blog fix it", "/code nope fix it"}

\* telegram.ts:33-40: the event of a regular message
IncomingMessage(userId, chatId, text) ==
    [source |-> "telegram", userId |-> userId, chatId |-> chatId, text |-> text]

\* the text handler publishing every text to the LLM worker
RouteIncomingAlways(codeCommand, message) == Append(incoming, message)

\* telegram.ts:27-43: `if (codeCommand) { ...; return; }`, else publish
RouteIncoming(codeCommand, message) ==
    IF codeCommand # Null THEN incoming ELSE Append(incoming, message)

\* telegram.ts:126-128: one line per project; the bullet is written "*" and
\* the Markdown quotes around the name are left out
RECURSIVE ProjectBullets(_)
ProjectBullets(projects) ==
    IF projects = <<>> THEN ""
    ELSE "* " \o Head(projects).name \o ": " \o Head(projects).path
         \o (IF Len(projects) > 1 THEN "\n" ELSE "")
         \o ProjectBullets(Tail(projects))

\* telegram.ts:124-131
ProjectsReply(cfg) ==
    "*Available Projects*\n\n" \o
    (IF Len(listProjects(cfg)) > 0 THEN ProjectBullets(listProjects(cfg))
     ELSE "No projects configured.\n\nEdit data/claude-code-config.json to add projects.")

NotAuthorizedReply == "You are not authorized for this action."

\* ctx.reply(text): a message to the chat of the update
Reply(chatId, text) == Append(replies, [chatId |-> chatId, text |-> text])

\* telegram.ts:115-173, up to the first await of each case.  The awaited
\* ctx.reply is the last statement of its case; the claude-code case goes on
\* after its await, in PublishRequest.
handleClaudeCodeCommand(command, userId, chatId) ==
    CASE command.type = "null" ->
            UNCHANGED <<replies, typing, activeSessions, cleared, memory, disk>>
      [] command.type = "list-projects" ->
            /\ replies' = Reply(chatId, ProjectsReply(config))
            /\ UNCHANGED <<typing, activeSessions, cleared, memory, disk>>
      [] command.type = "clear-session" ->
            /\ activeSessions' = clearSessionMap(activeSessions, chatId, command.projectName)
            /\ cleared' = cleared \cup {SessionKey(chatId, command.projectName)}
            /\ replies' = Reply(chatId, "Session cleared for project: " \o command.projectName)
            /\ UNCHANGED <<typing, memory, disk>>
      [] command.type = "clear-permissions" ->
            IF ~isAuthorizedUser(config, userId)
            THEN /\ replies' = Reply(chatId, NotAuthorizedReply)
                 /\ UNCHANGED <<typing, activeSessions, cleared, memory, disk>>
            ELSE /\ memory' = clearProjectMemory(memory, command.projectName)
                 /\ disk' = memory'
                 /\ replies' = Reply(chatId, "Permission memory cleared for project: "
                                             \o command.projectName)
                 /\ UNCHANGED <<typing, activeSessions, cleared>>
      [] command.type = "claude-code" ->
            /\ typing' = Append(typing, [chatId |-> chatId, userId |-> userId,
                                         projectName |-> command.projectName,
                                         prompt |-> command.prompt])
            /\ UNCHANGED <<replies, activeSessions, cleared, memory, disk>>

\* The requests the model has room for: the runs not started yet, less the
\* commands that wait to publish theirs.
FreeSlots == Cardinality({s \in Slots : slots[s].pc = "new"}) - Len(typing)

\* telegram.ts:18-44: a text message arrives
MessageText ==
    /\ update.n < MaxUpdates
    /\ NoMicrotask
    /\ \E userId \in Users, chatId \in Chats, text \in RouteTexts :
          LET codeCommand == parseClaudeCodeCommand(config, text)
          IN  /\ codeCommand.type = "claude-code" => FreeSlots > 0
              /\ update' = [n |-> update.n + 1, kind |-> "text", userId |-> userId,
                            chatId |-> chatId, data |-> text]
              /\ incoming' = RouteIncoming(codeCommand,
                                           IncomingMessage(userId, chatId, text))
              /\ handleClaudeCodeCommand(codeCommand, userId, chatId)
    /\ UNCHANGED <<config, permOp, storeOps, chunkVars, clock, slots, delivered,
                   pendingPermissions, promises, timers, permRequests, parsed,
                   configFile, regOp, conversations, convOp>>

\* the sequence without its i-th element
Without(seq, i) == SubSeq(seq, 1, i - 1) \o SubSeq(seq, i + 1, Len(seq))

\* telegram.ts:154-169: the typing indicator of a claude-code command was
\* sent, and the handler publishes the request with the chat's session.
PublishRequest(s) ==
    \E i \in 1..Len(typing) :
        /\ RequestStart(s, {typing[i]})
        /\ typing' = Without(typing, i)
        /\ UNCHANGED <<parsed, update, incoming, replies, configFile, regOp,
                       conversations, convOp>>

\* Chat updates of every kind, and the runs they start as far as the
\* session id they register.
RouteNext ==
    \/ MessageText
    \/ \E s \in Slots : PublishRequest(s)
    \/ \E s \in Slots : AgentInit(s)
    \/ \E s \in Slots : AgentEnd(s)

SpecRoute == ExecInit /\ [][RouteNext]_vars

\* ------------------------------------------------------ permission buttons
\* telegram.ts:86-92: the callback data of the four buttons of a request
ButtonData(requestId) ==
    { "perm:" \o requestId \o ":" \o action \o ":" \o remember :
          action \in {"allow", "deny"}, remember \in {"yes", "no"} }

\* telegram.ts:52-60: `const [, requestId, action, remember] = data.split(":")`
\* and the response published
PermissionResponseOf(data, chatId) ==
    LET parts == Split(data, ":")
    IN  [requestId |-> parts[2], chatId |-> chatId,
         approved |-> parts[3] = "allow", rememberChoice |-> parts[4] = "yes"]

\* telegram.ts:46-60 and executor.ts:34-46: a member of the chat a permission
\* request was sent to presses one of its buttons, and the response is
\* handled.  The message with the buttons stays in the chat after the
\* request was answered or timed out.
CallbackQuery(n) ==
    /\ n \in 1..Len(permRequests)
    /\ NoMicrotask
    /\ \E userId \in Users, data \in ButtonData(permRequests[n].requestId) :
          LET chatId == permRequests[n].chatId
              response == PermissionResponseOf(data, chatId)
          IN  /\ update' = [n |-> update.n, kind |-> "callback", userId |-> userId,
                            chatId |-> chatId, data |-> data]
              /\ IF response.requestId \in pendingPermissions
                 THEN /\ promises' = [m \in 1..Len(promises) |->
                            IF permRequests[m].requestId = response.requestId
                            THEN Resolve(promises[m],
                                         [approved |-> response.approved,
                                          remember |-> response.rememberChoice],
                                         "response")
                            ELSE promises[m]]
                      /\ pendingPermissions' = pendingPermissions \ {response.requestId}
                 ELSE UNCHANGED <<promises, pendingPermissions>>
    /\ UNCHANGED <<config, memory, disk, permOp, storeOps, chunker, responses, clock,
                   delivered, activeSessions, cleared, slots, timers, permRequests,
                   parsed, incoming, replies, typing, configFile, regOp,
                   conversations, convOp>>

\* The permission protocol with the buttons pressed by the members of the
\* chat.
CallbackNext ==
    \/ \E s \in Slots : Request(s, ProtocolInputs)
    \/ \E s \in Slots : AgentToolCall(s)
    \/ \E s \in Slots : AgentEnd(s)
    \/ \E n \in 1..MaxEvents : CallbackQuery(n)
    \/ \E n \in 1..MaxEvents : PermissionTimeout(n)
    \/ \E s \in Slots : PermissionResume(s)

SpecCallback == ExecInit /\ [][CallbackNext]_vars

\* ===================================================================== claims
\* ---------------------------------------------------------------------- C1
\* Slot s takes its request in this step.
Arrives(s) == slots[s].pc = "new" /\ slots'[s].pc # "new"

\* The request of slot s came from someone other than the allowed user.
Stranger(s) == slots[s].pc # "new" /\ slots[s].req.userId # config.allowedUserId

C1_Refused(s) ==
    (Arrives(s) /\ slots'[s].req.userId # config.allowedUserId) =>
        /\ slots'[s].pc = "done"
        /\ slots'[s].started = NoRun
        /\ responses'[s] = <<Response(slots'[s].req.id, slots'[s].req.chatId,
                                      RefusalText, Undef, Undef)>>
        /\ \A r \in Slots \ {s} : responses'[r] = responses[r]
        /\ UNCHANGED <<permRequests, pendingPermissions, promises, timers,
                       activeSessions, memory, disk>>

C1_Terminated(s) ==
    Stranger(s) => (slots'[s] = slots[s] /\ responses'[s] = responses[s])

\* C1: a request whose userId differs from allowedUserId publishes the refusal
\* as its only response and returns; it starts no agent run, publishes no
\* permission request, adds no pending entry, leaves the session map and the
\* permission store as they were, and nothing of it happens afterwards.
C1_UnauthorizedRefused ==
    [][\A s \in Slots : C1_Refused(s) /\ C1_Terminated(s)]_vars

\* A stranger's request has been refused while another run waits for a
\* permission answer.
C1_Witness ==
    \E s \in Slots, r \in Slots :
        /\ Stranger(s)
        /\ slots[s].pc = "done"
        /\ Len(responses[s]) = 1
        /\ responses[s][1].text = RefusalText
        /\ slots[r].pc = "running"
        /\ slots[r].wait # 0
        /\ pendingPermissions # {}

\* ---------------------------------------------------------------------- C2
\* The call checkPermission last answered matched a rule of each list.
MatchedBothLists ==
    /\ permOp.op = "check"
    /\ permOp.project \in DOMAIN memory
    /\ AnyMatch(memory[permOp.project].denied, permOp.tool, permOp.input)
    /\ AnyMatch(memory[permOp.project].allowed, permOp.tool, permOp.input)

\* C2: whatever the project and its rule lists hold, a tool call that matches
\* a denied rule and an allowed rule is answered "denied" by checkPermission.
C2_DenyPrecedence == MatchedBothLists => permOp.result = "denied"

\* A call matching both lists has been checked and answered "denied".
C2_Witness == MatchedBothLists /\ permOp.result = "denied"

\* ---------------------------------------------------------------------- C3
\* The timer of permission request n fires in this step.
TimerFires(n) == n \in timers /\ n \notin timers'

C3_TimedOut(n) ==
    (TimerFires(n) /\ PermissionId(n) \in pendingPermissions) =>
        /\ promises[n].resolveCalls = 0
        /\ promises'[n].resolveCalls = 1
        /\ promises'[n].state = "resolved"
        /\ promises'[n].result = [approved |-> FALSE, remember |-> FALSE]
        /\ pendingPermissions' = pendingPermissions \ {PermissionId(n)}

C3_SettledOnce(n) ==
    promises[n].state # "pending" =>
        /\ promises'[n].resolveCalls = promises[n].resolveCalls
        /\ PermissionId(n) \notin pendingPermissions
        /\ PermissionId(n) \notin pendingPermissions'
        /\ \/ promises'[n] = promises[n]
           \/ promises[n].state = "resolved" /\ promises'[n].state = "consumed"

\* C3: the timer of a request still in the table resolves its wait with
\* {approved: false, remember: false}, by the first call of its resolve, and
\* takes its entry out of the table; once a wait is settled no later step, a
\* response carrying its id included, resolves it again, puts its entry back
\* or changes its result.
C3_TimeoutResolvesOnce ==
    [][\A n \in 1..Len(promises) : C3_TimedOut(n) /\ C3_SettledOnce(n)]_vars

\* A wait has just been settled by its timer.
C3_Witness ==
    \E n \in 1..Len(promises) :
        /\ promises[n].state = "resolved"
        /\ promises[n].by = "timeout"
        /\ promises[n].resolveCalls = 1
        /\ promises[n].result = [approved |-> FALSE, remember |-> FALSE]
        /\ PermissionId(n) \notin pendingPermissions
        /\ n \notin timers

\* ---------------------------------------------------------------------- C4
Waiting == {n \in 1..Len(promises) : promises[n].state = "pending"}

C4_Table ==
    /\ pendingPermissions = {PermissionId(n) : n \in Waiting}
    /\ Cardinality(pendingPermissions) = Cardinality(Waiting)
    /\ \A n \in 1..Len(promises) :
          promises[n].resolveCalls = IF n \in Waiting THEN 0 ELSE 1

\* C4: however responses (repeated ones too) and timers interleave, the table
\* holds one entry for each wait not yet settled and nothing else, a settled
\* wait has had its resolve called once, and every entry put into the table
\* leaves it, so the table is empty once every wait is settled.
C4_TableDrains ==
    /\ []C4_Table
    /\ \A n \in 1..MaxEvents :
          (PermissionId(n) \in pendingPermissions)
              ~> (PermissionId(n) \notin pendingPermissions)

\* Two waits have been settled and resumed, and the table is empty.
C4_Witness ==
    /\ Len(promises) >= 2
    /\ \A n \in 1..Len(promises) :
          promises[n].state = "consumed" /\ promises[n].resolveCalls = 1
    /\ pendingPermissions = {}

\* ---------------------------------------------------------------------- C5
\* The run of slot s hands a tool call to handlePermission in this step.
ToolCalled(s) == delivered' = delivered + 1 /\ slots'[s] # slots[s]

\* What the store says about that tool call.
StoreAnswer(s) ==
    checkPermission(memory, slots[s].req.projectName,
                    slots'[s].call.tool, slots'[s].call.input)

C5_Asks(s) ==
    (ToolCalled(s) /\ StoreAnswer(s) = "ask") =>
        LET n == Len(permRequests) + 1
        IN  /\ Len(permRequests') = n
            /\ SubSeq(permRequests', 1, n - 1) = permRequests
            /\ permRequests'[n].chatId = slots[s].req.chatId
            /\ permRequests'[n].projectName = slots[s].req.projectName
            /\ permRequests'[n].toolName = slots'[s].call.tool
            /\ permRequests'[n].toolInput = slots'[s].call.input
            /\ \A m \in 1..Len(permRequests) :
                  permRequests[m].requestId # permRequests'[n].requestId
            /\ permRequests'[n].requestId \notin pendingPermissions
            /\ pendingPermissions' =
                  pendingPermissions \cup {permRequests'[n].requestId}
            /\ slots'[s].wait = n
            /\ slots'[s].verdict = NoVerdict

C5_Waits(s) ==
    (slots[s].wait # 0 /\ promises[slots[s].wait].state = "pending") =>
        (slots[s].verdict = NoVerdict /\ slots'[s].verdict = NoVerdict)

C5_Answers(s) ==
    (slots[s].wait # 0 /\ slots'[s].verdict # NoVerdict) =>
        LET n == slots[s].wait
        IN  /\ promises[n].state = "resolved"
            /\ promises[n].by \in {"response", "timeout"}
            /\ slots'[s].verdict.permId = permRequests[n].requestId
            /\ slots'[s].verdict.behavior \in {"allow", "deny"}
            /\ (slots'[s].verdict.behavior = "allow")
                  <=> (promises[n].by = "response" /\ promises[n].result.approved)

\* C5: a tool call the store answers "ask" publishes one permission request
\* under an id no earlier request had and puts that one id into the table; no
\* verdict goes back to the agent runtime while the wait is unsettled, and the
\* verdict that goes back is allow exactly when a response with approved =
\* true settled the wait.
C5_AskBlocksUntilAnswered ==
    [][\A s \in Slots : C5_Asks(s) /\ C5_Waits(s) /\ C5_Answers(s)]_vars

\* An asked tool call has been allowed by the user's response.
C5_Witness ==
    \E s \in Slots :
        /\ slots[s].verdict.behavior = "allow"
        /\ slots[s].verdict.by = "response"
        /\ slots[s].verdict.permId # ""
        /\ \E n \in 1..Len(permRequests) :
              permRequests[n].requestId = slots[s].verdict.permId

\* ---------------------------------------------------------------------- C6
C6_Decided(s) ==
    (ToolCalled(s) /\ StoreAnswer(s) # "ask") =>
        /\ StoreAnswer(s) = "allowed" =>
              /\ slots'[s].verdict.behavior = "allow"
              /\ slots'[s].verdict.updatedInput = slots'[s].call.input
        /\ StoreAnswer(s) = "denied" =>
              /\ slots'[s].verdict.behavior = "deny"
              /\ slots'[s].verdict.message = "This action was previously denied."
        /\ slots'[s].wait = 0
        /\ UNCHANGED <<permRequests, pendingPermissions, promises, timers>>

\* C6: a tool call the store answers "allowed" or "denied" gets the allow
\* verdict carrying its own input, or the deny verdict with the fixed message,
\* in the step that made the call: no permission request is published and the
\* table gets no entry.
C6_CacheHitAnswersAtOnce == [][\A s \in Slots : C6_Decided(s)]_vars

\* One run has an allow verdict from the store carrying the call's input,
\* another a deny verdict from the store.
C6_Witness ==
    \E s \in Slots, r \in Slots :
        /\ slots[s].verdict.behavior = "allow"
        /\ slots[s].verdict.permId = ""
        /\ slots[s].call # NoCall
        /\ slots[s].verdict.updatedInput = slots[s].call.input
        /\ slots[r].verdict.behavior = "deny"
        /\ slots[r].verdict.permId = ""
        /\ slots[r].verdict.message = "This action was previously denied."

\* ---------------------------------------------------------------------- C7
\* handlePermission of slot s resumes from its wait in this step.
Resumes(s) == slots[s].wait # 0 /\ slots'[s].wait = 0

RulePresent(mem, projectName, rule, approved) ==
    /\ projectName \in DOMAIN mem
    /\ LET list == IF approved THEN mem[projectName].allowed
                   ELSE mem[projectName].denied
       IN  \E i \in 1..Len(list) : list[i] = rule

C7_Remembered(s) ==
    LET n == slots[s].wait
    IN  (Resumes(s) /\ promises[n].by = "response" /\ promises[n].result.remember) =>
            /\ slots[s].verdict = NoVerdict
            /\ slots'[s].verdict.behavior =
                  IF promises[n].result.approved THEN "allow" ELSE "deny"
            /\ RulePresent(memory', slots[s].req.projectName,
                           createRule(slots[s].call.tool, slots[s].call.input),
                           promises[n].result.approved)

\* C7: when a response with rememberChoice = true settled the wait, the state
\* in which the verdict is back with the agent runtime has the rule of the
\* tool call in the project's allowed list if it was approved, in its denied
\* list if it was not.
C7_RememberedBeforeVerdict == [][\A s \in Slots : C7_Remembered(s)]_vars

\* A denial the user asked to have remembered is back with the agent runtime
\* and its rule is in the denied list.
C7_Witness ==
    \E s \in Slots, n \in 1..Len(permRequests) :
        /\ slots[s].verdict.permId = permRequests[n].requestId
        /\ slots[s].verdict.by = "response"
        /\ slots[s].verdict.behavior = "deny"
        /\ permRequests[n].toolName = "Edit"
        /\ RulePresent(memory, permRequests[n].projectName,
                       createRule(permRequests[n].toolName, permRequests[n].toolInput),
                       FALSE)

\* ---------------------------------------------------------------------- C8
C8_OnlyRemembered ==
    (memory' # memory \/ disk' # disk) =>
        \E s \in Slots :
            /\ Resumes(s)
            /\ promises[slots[s].wait].by = "response"
            /\ promises[slots[s].wait].result.remember

C8_Unremembered(s) ==
    LET n == slots[s].wait
    IN  (Resumes(s) /\ (promises[n].by = "timeout" \/ ~promises[n].result.remember)) =>
            UNCHANGED <<memory, disk>>

C8_RunGoesOn(s) ==
    (Resumes(s) /\ promises[slots[s].wait].by = "timeout") =>
        /\ slots'[s].pc = slots[s].pc
        /\ slots'[s].verdict.behavior = "deny"
        /\ slots'[s].req = slots[s].req

\* C8: the permission store and its file change only in the step that resumes
\* a wait settled by a response with rememberChoice = true; resuming from a
\* timeout or from a response with rememberChoice = false leaves them as they
\* were, and resuming from a timeout hands back a denial and leaves the run
\* where it was, a running run ready for the agent's next event.
C8_StoreChangesOnlyWhenRemembered ==
    [][/\ C8_OnlyRemembered
       /\ \A s \in Slots : C8_Unremembered(s) /\ C8_RunGoesOn(s)]_vars

\* A run got its denial from a timeout and is open for the next event.
C8_Witness ==
    \E s \in Slots :
        /\ slots[s].pc = "running"
        /\ slots[s].wait = 0
        /\ slots[s].verdict.by = "timeout"
        /\ slots[s].verdict.behavior = "deny"

\* ---------------------------------------------------------------------- C9
C9_OnlyItsOwn(n) ==
    (/\ promises[n].state = "pending"
     /\ promises'[n].state = "resolved"
     /\ promises'[n].by = "response") =>
        /\ pendingPermissions' = pendingPermissions \ {permRequests[n].requestId}
        /\ \A m \in (1..Len(promises)) \ {n} : promises'[m] = promises[m]
        /\ slots' = slots

\* C9: the response that settles the wait registered under its id takes that
\* one entry out of the table and touches no other wait: every other entry
\* stays, every other callback stays as it was, and no run moves.
C9_ResponseResolvesOnlyItsWait ==
    [][\A n \in 1..Len(promises) : C9_OnlyItsOwn(n)]_vars

\* Two runs waited at once; a response has settled one wait and the other is
\* still in the table.
C9_Witness ==
    \E n \in 1..Len(promises), m \in 1..Len(promises) :
        /\ n # m
        /\ promises[n].owner # promises[m].owner
        /\ promises[n].state = "resolved"
        /\ promises[n].by = "response"
        /\ promises[m].state = "pending"
        /\ PermissionId(m) \in pendingPermissions
        /\ slots[promises[m].owner].wait = m

\* --------------------------------------------------------------------- C10
\* A published text without its `[Part i/n]\n\n` prefix.
StripPartIndicator(text) ==
    IF /\ Len(text) >= 3
       /\ Len(text[1].s) >= 6
       /\ SubSeq(text[1].s, 1, 6) = "[Part "
       /\ IsNL(text[2])
       /\ IsNL(text[3])
    THEN SubSeq(text, 4, Len(text))
    ELSE text

\* The published texts, prefixes stripped, one after the other.
RECURSIVE ConcatStripped(_)
ConcatStripped(events) ==
    IF events = <<>> THEN <<>>
    ELSE StripPartIndicator(Head(events).text) \o ConcatStripped(Tail(events))

\* C10: once sendChunkedResponse has returned for a text longer than
\* MAX_CHUNK_SIZE, the texts it published, in order and without their part
\* prefixes, concatenate to the text it was given.
C10_ChunkRoundTrip ==
    (chunker.pc = "done" /\ TLen(chunker.text) > MAX_CHUNK_SIZE)
        => Normalize(ConcatStripped(responses[1])) = Normalize(chunker.text)

\* --------------------------------------------------------------------- C11
\* sendChunkedResponse has returned for a text within the budget.
ShortTextSent == chunker.pc = "done" /\ TLen(chunker.text) <= MAX_CHUNK_SIZE

\* C11: for a text of at most MAX_CHUNK_SIZE characters sendChunkedResponse
\* publishes one event: its text is the text given, with no part prefix, it
\* carries the session id given and it is not marked partial.
C11_ShortTextOneEvent ==
    ShortTextSent =>
        /\ Len(responses[1]) = 1
        /\ responses[1][1].text = chunker.text
        /\ responses[1][1].sessionId = chunker.sessionId
        /\ responses[1][1].isPartial # "true"

\* A text of exactly MAX_CHUNK_SIZE characters has gone out with its session.
C11_Witness ==
    /\ ShortTextSent
    /\ TLen(chunker.text) = MAX_CHUNK_SIZE
    /\ chunker.sessionId = "s1"
    /\ Len(responses[1]) = 1
    /\ responses[1][1].sessionId = "s1"

\* --------------------------------------------------------------------- C12
\* sendChunkedResponse has returned after publishing several chunks.
ManyChunksSent == chunker.pc = "done" /\ Len(responses[1]) > 1

\* C12: of the chunks of a multi-chunk response the last one carries the
\* session id and isPartial = false; every earlier one carries no session id
\* and isPartial = true.
C12_OnlyLastChunkHasSession ==
    ManyChunksSent =>
        \A i \in 1..Len(responses[1]) :
            IF i = Len(responses[1])
            THEN /\ responses[1][i].sessionId = chunker.sessionId
                 /\ responses[1][i].isPartial = "false"
            ELSE /\ responses[1][i].sessionId = Undef
                 /\ responses[1][i].isPartial = "true"

\* Three chunks have gone out for a run with a session.
C12_Witness ==
    /\ ManyChunksSent
    /\ Len(responses[1]) = 3
    /\ chunker.sessionId = "s1"
    /\ responses[1][3].sessionId = "s1"
    /\ responses[1][1].sessionId = Undef

\* --------------------------------------------------------------------- C13
\* The length of the output of the scenario: 9000 characters.
ScenarioLength == 2 * MAX_CHUNK_SIZE + 1000

NoNewline(text) == \A i \in 1..Len(text) : ~IsNL(text[i])

\* The published text starts with `[Part i/n]\n\n`.
HasPartPrefix(text, i, n) ==
    /\ Len(text) >= 3
    /\ text[1] = Piece("[Part " \o ToString(i) \o "/" \o ToString(n) \o "]", 0,
                       Len("[Part " \o ToString(i) \o "/" \o ToString(n) \o "]"))
    /\ IsNL(text[2])
    /\ IsNL(text[3])

\* Three events labelled 1/3, 2/3, 3/3, the session id on the third only.
ThreeLabelledParts ==
    /\ Len(responses[1]) = 3
    /\ \A i \in 1..3 : HasPartPrefix(responses[1][i].text, i, 3)
    /\ responses[1][1].sessionId = Undef
    /\ responses[1][2].sessionId = Undef
    /\ responses[1][3].sessionId = chunker.sessionId

\* C13 as stated: every output of 9000 characters goes out as three events
\* labelled [Part 1/3], [Part 2/3], [Part 3/3], the session id on part 3 only.
C13_NineThousandThreeParts ==
    (chunker.pc = "done" /\ TLen(chunker.text) = ScenarioLength)
        => ThreeLabelledParts

\* C13, amended: an output of 9000 characters without a newline goes out as
\* three events labelled [Part 1/3], [Part 2/3], [Part 3/3], the session id
\* on part 3 only.
C13_NineThousandNoNewline ==
    (/\ chunker.pc = "done"
     /\ TLen(chunker.text) = ScenarioLength
     /\ NoNewline(chunker.text))
        => ThreeLabelledParts

\* An output of 9000 characters without a newline has gone out in three parts.
C13_Witness ==
    /\ chunker.pc = "done"
    /\ TLen(chunker.text) = ScenarioLength
    /\ NoNewline(chunker.text)
    /\ chunker.sessionId = "s1"
    /\ ThreeLabelledParts

\* --------------------------------------------------------------------- C14
\* The indices of the newlines of t; pos is the index of its first character.
RECURSIVE NewlinesFrom(_, _)
NewlinesFrom(t, pos) ==
    IF t = <<>> THEN {}
    ELSE (IF IsNL(Head(t)) THEN {pos} ELSE {})
         \cup NewlinesFrom(Tail(t), pos + Head(t).n)

\* The newlines at or before the budget and at or beyond its halfway point.
SuitableNewlines(t) ==
    {i \in NewlinesFrom(t, 0) : i <= MAX_CHUNK_SIZE /\ 2 * i >= MAX_CHUNK_SIZE}

\* Where the claim has the next chunk end.
ExpectedCut(t) ==
    IF SuitableNewlines(t) = {} THEN MAX_CHUNK_SIZE
    ELSE CHOOSE i \in SuitableNewlines(t) : \A j \in SuitableNewlines(t) : j <= i

\* The loop takes a chunk off a remainder longer than the budget.
CutsChunk ==
    /\ chunker.pc = "loop"
    /\ TLen(chunker.remaining) > MAX_CHUNK_SIZE
    /\ chunker'.chunks # chunker.chunks

\* C14: while more than MAX_CHUNK_SIZE characters remain, the next chunk is
\* the remainder up to its last newline at or before index MAX_CHUNK_SIZE when
\* that newline is at or beyond index MAX_CHUNK_SIZE / 2, and its first
\* MAX_CHUNK_SIZE characters otherwise.
C14_CutAtNewlinePastHalf ==
    [][CutsChunk =>
          /\ Len(chunker'.chunks) = Len(chunker.chunks) + 1
          /\ TLen(chunker'.chunks[Len(chunker'.chunks)]) = ExpectedCut(chunker.remaining)
          /\ Normalize(chunker'.chunks[Len(chunker'.chunks)])
                = Normalize(Take(chunker.remaining, ExpectedCut(chunker.remaining)))]_vars

\* A first chunk was cut at a newline sitting exactly at the halfway point,
\* and a later one at the budget.
C14_Witness ==
    /\ Len(chunker.chunks) >= 2
    /\ TLen(chunker.chunks[1]) = Half
    /\ TLen(chunker.chunks[2]) = MAX_CHUNK_SIZE

\* --------------------------------------------------------------------- C15
SlotKey(s) == SessionKey(slots[s].req.chatId, slots[s].req.projectName)

\* The run of slot s takes a system/init message in this step.
InitDelivered(s) == slots'[s].inits = slots[s].inits + 1

\* clearSession is called for the key in this step.
ClearsKey(key) ==
    /\ delivered' = delivered
    /\ slots' = slots
    /\ key \in cleared'
    /\ key \notin DOMAIN activeSessions'

\* The first init of the run binds the key to its session id, others untouched.
C15_FirstInitBinds(s) ==
    (slots[s].inits = 0 /\ InitDelivered(s)) =>
        /\ getActiveSession(activeSessions', slots[s].req.chatId,
                            slots[s].req.projectName) = slots'[s].currentSessionId
        /\ \A k \in (DOMAIN activeSessions \cup DOMAIN activeSessions') \ {SlotKey(s)} :
              /\ k \in DOMAIN activeSessions
              /\ k \in DOMAIN activeSessions'
              /\ activeSessions'[k] = activeSessions[k]

\* From then on the binding changes only by clearSession or by another run of
\* the same key.
C15_BindingKept(s) ==
    (/\ slots[s].pc = "running"
     /\ slots[s].inits >= 1
     /\ getActiveSession(activeSessions', slots[s].req.chatId, slots[s].req.projectName)
            # getActiveSession(activeSessions, slots[s].req.chatId, slots[s].req.projectName))
        => \/ ClearsKey(SlotKey(s))
           \/ \E r \in Slots \ {s} : SlotKey(r) = SlotKey(s) /\ InitDelivered(r)

\* C15: once a run's first system/init message has reported session id s,
\* getActiveSession(chatId, projectName) returns s for the rest of the run,
\* until clearSession or another run of the same key changes it, and the
\* first init leaves the binding of every other key unchanged.
C15_SessionBoundAtFirstInit ==
    [][\A s \in Slots : C15_FirstInitBinds(s) /\ C15_BindingKept(s)]_vars

\* --------------------------------------------------------------------- C16
\* C16: the request that follows clearSession(chatId, project) for the same
\* chat and project carries no session id and its run is started without
\* resume, whatever happened between the two, a run of the same chat and
\* project in flight at the clear included.
C16_FreshAfterClear ==
    [][\A s \in Slots :
          (/\ Arrives(s)
           /\ SessionKey(slots'[s].req.chatId, slots'[s].req.projectName) \in cleared)
              => /\ slots'[s].req.sessionId = Undef
                 /\ slots'[s].started.resume = Undef]_vars

\* --------------------------------------------------------------------- C17
\* The session the map holds for the chat and project of a request.
BoundSession(req) ==
    IF SessionKey(req.chatId, req.projectName) \in DOMAIN activeSessions
    THEN activeSessions[SessionKey(req.chatId, req.projectName)]
    ELSE Undef

\* The project of the request is one the registry lists.
Configured(req) ==
    \E i \in 1..Len(config.projects) : config.projects[i].name = req.projectName

\* The command of slot s becomes a request with the bound session, and the
\* operator's run for a listed project starts in its path, resuming it.
C17_Started(s) ==
    Arrives(s) =>
        LET req == slots'[s].req
        IN  /\ req.sessionId = BoundSession(req)
            /\ (req.userId = config.allowedUserId /\ Configured(req)) =>
                  /\ slots'[s].pc = "running"
                  /\ \E i \in 1..Len(config.projects) :
                        /\ config.projects[i].name = req.projectName
                        /\ slots'[s].started.cwd = config.projects[i].path
                  /\ slots'[s].started.resume = BoundSession(req)
            /\ SessionKey(req.chatId, req.projectName) \notin DOMAIN activeSessions =>
                  /\ req.sessionId = Undef
                  /\ slots'[s].started.resume = Undef

\* C17: a claude-code command for a chat and project becomes a request whose
\* sessionId is the session bound to them at that moment, and the run is
\* started with cwd = the registry path of the project and resume = that
\* sessionId; with no binding the request has no sessionId and the run is
\* started without resume.
C17_RequestResumesBoundSession ==
    [][\A s \in Slots : C17_Started(s)]_vars

\* A second run of the chat's project has been started resuming the session
\* the first one reported.
C17_Witness ==
    \E s \in Slots :
        /\ slots[s].pc = "running"
        /\ slots[s].req.sessionId = "s1"
        /\ slots[s].started = [cwd |-> "/s", resume |-> "s1"]
        /\ \E r \in Slots \ {s} : slots[r].started = [cwd |-> "/s", resume |-> Undef]

\* --------------------------------------------------------------------- C18
\* The operator's request names a project the registry does not list.
C18_Unresolvable(s) ==
    /\ Arrives(s)
    /\ slots'[s].req.userId = config.allowedUserId
    /\ ~Configured(slots'[s].req)

C18_ListedAndTerminated(s) ==
    /\ slots'[s].pc = "done"
    /\ slots'[s].started = NoRun
    /\ responses'[s] = <<Response(slots'[s].req.id, slots'[s].req.chatId,
                                  NotFoundText(config, slots'[s].req.projectName),
                                  Undef, Undef)>>
    /\ \A r \in Slots \ {s} : responses'[r] = responses[r]
    /\ UNCHANGED <<activeSessions, pendingPermissions, promises, timers,
                   permRequests, memory, disk>>

\* C18: a request of the authorized user that names a project the registry
\* cannot resolve publishes one response, the list of the configured project
\* names (or the notice that there are none), and returns: no agent run is
\* started, and the session map, the pending permissions and the permission
\* store are unchanged.
C18_UnknownProjectListed ==
    [][\A s \in Slots : C18_Unresolvable(s) => C18_ListedAndTerminated(s)]_vars

\* --------------------------------------------------------------------- C19
\* The catch block of slot s runs in this step.
ThrowCaught(s) == slots[s].pc = "running" /\ slots'[s].error # Undef

\* One response with the error text, the request over, nothing else touched.
C19_Reported(s) ==
    ThrowCaught(s) =>
        /\ responses'[s] = responses[s]
              \o <<Response(slots[s].req.id, slots[s].req.chatId,
                            Lit("Error: " \o slots'[s].error), Undef, Undef)>>
        /\ slots'[s].pc = "done"
        /\ \A r \in Slots \ {s} : slots'[r] = slots[r] /\ responses'[r] = responses[r]
        /\ UNCHANGED <<activeSessions, pendingPermissions, promises, timers,
                       permRequests, memory, disk>>

\* Nothing of a failed request happens afterwards.
C19_NoRetry(s) ==
    slots[s].error # Undef => (slots'[s] = slots[s] /\ responses'[s] = responses[s])

\* C19: when the agent run of a request throws, executeRequest catches it,
\* publishes one response with the error text for that request and returns;
\* the request is not run again, and the other requests, in flight or later,
\* are left as they were.
C19_ThrowReportedOnce ==
    [][\A s \in Slots : C19_Reported(s) /\ C19_NoRetry(s)]_vars

\* The first request has failed with its one error response, and the second,
\* whose run is still going, has had its result delivered.
C19_Witness ==
    /\ slots[1].error = "boom"
    /\ responses[1] = <<Response("cc-1", slots[1].req.chatId, Lit("Error: boom"),
                                 Undef, Undef)>>
    /\ slots[2].pc = "running"
    /\ Len(responses[2]) = 1

\* --------------------------------------------------------------------- C20
\* The run of slot s takes a result message in this step.
ResultDelivered(s) ==
    /\ slots[s].pc = "running"
    /\ slots'[s].pc = "running"
    /\ responses'[s] # responses[s]

\* The fragments in arrival order, a newline after each.
RECURSIVE JoinLines(_)
JoinLines(frags) ==
    IF frags = <<>> THEN <<>> ELSE Head(frags) \o <<NL>> \o JoinLines(Tail(frags))

\* One more response for slot s, with this text and the run's session id.
DeliveredWith(s, text) ==
    responses'[s] = responses[s]
        \o <<Response(slots[s].req.id, slots[s].req.chatId, text,
                      slots[s].currentSessionId, Undef)>>

\* The fallbacks: the result string when it is not empty, else "Done.".
FallbackText(result) ==
    IF result # Undef /\ result # "" THEN Lit(result) ELSE Lit("Done.")

\* C20 as stated: on a result message the text delivered is the accumulated
\* assistant fragments, in arrival order, when any was accumulated; else the
\* message's result string when it is not empty; else "Done."; with the
\* current session id.
C20_TextOrResultOrDone ==
    [][\A s \in Slots :
          ResultDelivered(s) =>
              IF slots[s].fragments # <<>>
              THEN DeliveredWith(s, Trim(JoinLines(slots[s].fragments)))
              ELSE DeliveredWith(s, FallbackText(slots'[s].result))]_vars

\* C20, amended: on a result message the text delivered is the accumulated
\* assistant fragments, in arrival order with a newline after each, trimmed,
\* when that is not empty; else the message's result string when it is not
\* empty; else "Done."; with the current session id.
C20_TrimmedTextOrResultOrDone ==
    [][\A s \in Slots :
          ResultDelivered(s) =>
              IF Trim(JoinLines(slots[s].fragments)) # <<>>
              THEN DeliveredWith(s, Trim(JoinLines(slots[s].fragments)))
              ELSE DeliveredWith(s, FallbackText(slots'[s].result))]_vars

\* The two fragments of one assistant message have been delivered in their
\* order, a newline between them, on the result message that followed.
C20_Witness ==
    \E s \in Slots :
        /\ slots[s].pc = "running"
        /\ slots[s].fragments = <<Lit("a"), Lit("b")>>
        /\ slots[s].result = "sum"
        /\ Len(responses[s]) = 1
        /\ responses[s][1].text = Lit("a") \o <<NL>> \o Lit("b")
        /\ responses[s][1].sessionId = slots[s].currentSessionId

\* --------------------------------------------------------------------- C21
\* The lists the store holds for a project: none for a project it has no
\* entry for.
StoredLists(mem, projectName) ==
    IF projectName \in DOMAIN mem THEN mem[projectName]
    ELSE [allowed |-> <<>>, denied |-> <<>>]

\* checkPermission was called and no rule of either list of the project
\* matches the call.
CheckedUnmatched ==
    /\ permOp.op = "check"
    /\ ~AnyMatch(StoredLists(memory, permOp.project).denied, permOp.tool, permOp.input)
    /\ ~AnyMatch(StoredLists(memory, permOp.project).allowed, permOp.tool, permOp.input)

\* C21: for every project, tool and input such that no rule of the project's
\* denied list and none of its allowed list matches, a project with no stored
\* rules included, checkPermission returns ask.
C21_UnmatchedAsks == CheckedUnmatched => permOp.result = "ask"

\* --------------------------------------------------------------------- C22
SameTuple(r1, r2) ==
    r1.tool = r2.tool /\ r1.pattern = r2.pattern /\ r1.command = r2.command

\* How many rules of the list have the tuple of the rule.
CountRule(list, rule) == Cardinality({i \in 1..Len(list) : SameTuple(list[i], rule)})

NoDuplicates(list) ==
    \A i \in 1..Len(list), j \in 1..Len(list) : SameTuple(list[i], list[j]) => i = j

\* remember is called in this step.
RememberCalled == permOp'.op = "remember" /\ storeOps' = storeOps + 1

\* The list of the decision the last remember call was about.
TargetList(mem, op) ==
    IF op.allowed THEN mem[op.project].allowed ELSE mem[op.project].denied

\* The call repeats the one before it.
C22_Repeated ==
    /\ RememberCalled
    /\ permOp.op = "remember"
    /\ permOp.project = permOp'.project
    /\ permOp.tool = permOp'.tool
    /\ permOp.input = permOp'.input
    /\ permOp.allowed = permOp'.allowed

\* C22: remember is idempotent: a call repeating the one before it changes
\* nothing, every call leaves one rule for its tuple in the list of its
\* decision, and no list ever holds two rules with the same tool, pattern
\* and command.
C22_RememberIdempotent ==
    [][/\ C22_Repeated => memory' = memory
       /\ RememberCalled =>
             CountRule(TargetList(memory', permOp'),
                       createRule(permOp'.tool, permOp'.input)) = 1
       /\ \A p \in DOMAIN memory' :
             NoDuplicates(memory'[p].allowed) /\ NoDuplicates(memory'[p].denied)]_vars

\* The store was empty, the same decision has been remembered twice, and the
\* list holds its rule once.
C22_Witness ==
    /\ permOp.op = "remember"
    /\ permOp.result = "exists"
    /\ storeOps = 2
    /\ DOMAIN memory = {permOp.project}
    /\ Len(TargetList(memory, permOp)) = 1
    /\ SameTuple(TargetList(memory, permOp)[1], createRule(permOp.tool, permOp.input))

\* --------------------------------------------------------------------- C26
\* C26: whenever a remember or clearProject call has returned, the content of
\* PERMISSIONS_PATH is the in-memory rule lists: no rule is in the one and
\* not in the other.
C26_DurableEqualsMemory == disk = memory

\* Two remembered decisions have been written, and the file holds both.
C26_Witness ==
    /\ permOp.op = "remember"
    /\ permOp.result = "saved"
    /\ storeOps = 2
    /\ disk = memory
    /\ Len(TargetList(memory, permOp)) = 2

\* --------------------------------------------------------------------- C23
\* checkPermission is called right after remember, for the same project, and
\* the remembered rule is the only rule the project has.
CheckedAfterRemember ==
    /\ permOp.op = "remember"
    /\ permOp.result = "saved"
    /\ permOp'.op = "check"
    /\ permOp'.project = permOp.project
    /\ Len(memory[permOp.project].allowed) + Len(memory[permOp.project].denied) = 1

\* C23: once an approved Bash call has been remembered for a project with no
\* other rule, checkPermission answers allowed to a Bash call only when its
\* command string is the remembered one.
C23_BashExactCommand ==
    [][(/\ CheckedAfterRemember
        /\ permOp.tool = "Bash"
        /\ permOp.allowed
        /\ permOp'.tool = "Bash"
        /\ permOp'.result = "allowed")
          => permOp'.input.command = permOp.input.command]_vars

\* --------------------------------------------------------------------- C24
PathDir(path) == Join(Front(Split(path, "/")), "/")
PathFile(path) == Last(Split(path, "/"))

\* What follows the last dot of the file name; "" when it has no dot.
FileExt(file) == IF Includes(file, ".") THEN Last(Split(file, ".")) ELSE ""

\* The path lies under the directory.
Under(dir, path) ==
    /\ Len(path) > Len(dir) + 1
    /\ SubSeq(path, 1, Len(dir) + 1) = dir \o "/"

\* C24: for an input with a file_path, remember stores <dir>/**/*.<ext>, so
\* that a later call of the same tool on a file with that extension under
\* that directory is decided without asking and one on a file with another
\* extension or outside the directory yields ask; for a file name without
\* extension the stored pattern is the path itself.
C24_DirectoryExtensionGlob ==
    [][(/\ CheckedAfterRemember
        /\ HasFilePath(permOp.input)
        /\ permOp'.tool = permOp.tool
        /\ HasFilePath(permOp'.input))
          => LET f1 == permOp.input.file_path
                 f2 == permOp'.input.file_path
                 dir == PathDir(f1)
                 ext == FileExt(PathFile(f1))
                 stored == TargetList(memory, permOp)[1].pattern
             IN  IF ext = "" THEN stored = f1
                 ELSE /\ stored = dir \o "/**/*." \o ext
                      /\ IF Under(dir, f2) /\ FileExt(PathFile(f2)) = ext
                         THEN permOp'.result # "ask"
                         ELSE permOp'.result = "ask"]_vars

\* --------------------------------------------------------------------- C25
\* clearProject is called in this step.
ClearCalled == permOp'.op = "clear" /\ storeOps' = storeOps + 1

\* C25: after clearProject(project), getProjectPermissions(project) is absent
\* and checkPermission answers ask for the project whatever the tool and the
\* input, and the lists of every other project are as they were.
C25_ClearedProjectAsks ==
    [][ClearCalled =>
          /\ getProjectPermissions(memory', permOp'.project) = Undef
          /\ \A c \in RuleChecks :
                checkPermission(memory', permOp'.project, c.tool, c.input) = "ask"
          /\ \A q \in (DOMAIN memory \cup DOMAIN memory') \ {permOp'.project} :
                /\ q \in DOMAIN memory
                /\ q \in DOMAIN memory'
                /\ memory'[q] = memory[q]]_vars

\* --------------------------------------------------------------------- C27
\* The parse of a message that is no command has returned.
ChatParsed == parsed.pc = "done" /\ parsed.typed.form = "chat"

\* C27: parseClaudeCodeCommand returns null for every text that matches none
\* of the recognized forms, and the step that parses such a text changes no
\* registry, session or permission state.
C27_UnrecognizedIsNull ==
    /\ [](ChatParsed => parsed.result = Null)
    /\ [][parsed'.pc = "done" /\ parsed.pc = "entry"
            => UNCHANGED <<config, configFile, activeSessions, memory, disk,
                           pendingPermissions, promises, timers, cleared>>]_vars

\* "in work fix it", which has no separator after the name, parsed to null
\* against a registry that lists work.
C27_Witness ==
    /\ ChatParsed
    /\ parsed.text = "in work fix it"
    /\ config = OperatorConfig
    /\ parsed.result = Null

\* --------------------------------------------------------------------- C28
\* The name is a key of the registry once put in lower case.
Registered(cfg, name) == ToLower(name) \in OwnKeys(cfg)

\* The parse of a form that takes a project name has returned.
NameFormParsed == parsed.pc = "done" /\ parsed.typed.form \in NameForms

\* C28: in each form that takes a project name, a text naming a registered
\* project parses to a command, and the text with the name written in any
\* other letter case parses to that same command.
C28_NameCaseIgnored ==
    (NameFormParsed /\ Registered(config, parsed.typed.name))
        => /\ parsed.result # Null
           /\ \A n \in TypedNames :
                 ToLower(n) = ToLower(parsed.typed.name)
                     => parseClaudeCodeCommand(
                            config, Render([parsed.typed EXCEPT !.name = n]))
                        = parsed.result

\* "@WORK fix bug" parsed to the command "@work fix bug" parses to.
C28_Witness ==
    /\ NameFormParsed
    /\ parsed.typed.form = "at"
    /\ parsed.typed.name = "WORK"
    /\ config = OperatorConfig
    /\ parsed.result = Command("claude-code", "work", "fix bug")

\* --------------------------------------------------------------------- C29
\* getProject gives a path for the name: a value of the registry itself.
ResolvesToPath(cfg, name) ==
    getProject(cfg, name) \notin {Undef, Inherited}

\* The forms that run a prompt in a named project.
RunForms == {"code", "at", "in,", "in:"}

\* C29: a claude-code command names a project getProject gives a path for,
\* and the /code, @ and in forms naming a project the registry does not hold
\* give null.
C29_CommandNamesRegisteredProject ==
    parsed.pc = "done"
        => /\ parsed.result.type = "claude-code"
                => ResolvesToPath(config, parsed.result.projectName)
           /\ (parsed.typed.form \in RunForms
                /\ ~Registered(config, parsed.typed.name))
                => parsed.result = Null

\* --------------------------------------------------------------------- C30
\* The parse of "cc <prompt>" has returned.
CcParsed == parsed.pc = "done" /\ parsed.typed.form = "cc"

\* C30: "cc <prompt>" gives a claude-code command for the first project of
\* the registry in insertion order, and null when the registry is empty.
C30_CcFirstInserted ==
    CcParsed
        => IF config.projects = <<>> THEN parsed.result = Null
           ELSE parsed.result
                = Command("claude-code", config.projects[1].name,
                          parsed.typed.prompt)

\* --------------------------------------------------------------------- C39
\* The number of rules the store holds for the project.
RuleCount(mem, projectName) ==
    IF projectName \in DOMAIN mem
    THEN Len(mem[projectName].allowed) + Len(mem[projectName].denied)
    ELSE 0

\* remember was called on a store with no rules for the project, and this
\* step checks the same project, tool and input.
RoundTrip ==
    /\ permOp.op = "remember"
    /\ permOp.result # "exists"
    /\ RuleCount(memory, permOp.project) <= 1
    /\ permOp'.op = "check"
    /\ permOp'.project = permOp.project
    /\ permOp'.tool = permOp.tool
    /\ permOp'.input = permOp.input

\* C39: after remember(project, tool, input, approved) on a store with no
\* rules for the project, checkPermission(project, tool, input) answers
\* allowed when approved was true and denied when it was false.
C39_RememberRoundTrip ==
    [][RoundTrip
         => permOp'.result = IF permOp.allowed THEN "allowed" ELSE "denied"]_vars

\* --------------------------------------------------------------------- C40
\* Every chunk pushed so far has between 1 and MAX_CHUNK_SIZE units.
ChunksBounded ==
    \A i \in 1..Len(chunker.chunks) :
        /\ TLen(chunker.chunks[i]) > 0
        /\ TLen(chunker.chunks[i]) <= MAX_CHUNK_SIZE

\* C40: for every text sendChunkedResponse returns, and every chunk its loop
\* pushes is non-empty and at most MAX_CHUNK_SIZE units long.
C40_LoopEndsChunksBounded ==
    /\ []ChunksBounded
    /\ <>(chunker.pc = "done")

\* A text that begins with a newline was split: the newline at index 0 is
\* not taken as the cut, and the three chunks are within the bounds.
C40_Witness ==
    /\ chunker.pc = "done"
    /\ chunker.text # <<>>
    /\ IsNL(Head(chunker.text))
    /\ Len(chunker.chunks) = 3
    /\ ChunksBounded

\* --------------------------------------------------------------------- C37
\* No rule of the project's allowed list has the tuple of a denied one.
ListsDisjoint(mem, projectName) ==
    \A i \in 1..Len(mem[projectName].allowed),
       j \in 1..Len(mem[projectName].denied) :
        ~SameTuple(mem[projectName].allowed[i], mem[projectName].denied[j])

\* C37: in every reachable state no (tool, pattern, command) tuple is in both
\* the allowed and the denied list of one project.
C37_NoRuleAllowedAndDenied ==
    \A p \in DOMAIN memory : ListsDisjoint(memory, p)

\* --------------------------------------------------------------------- C38
\* A response event carrying the id and the chat of the request of slot s
\* has been published.
Answered(s) ==
    \E i \in 1..Len(responses[s]) :
        /\ responses[s][i].requestId = slots[s].req.id
        /\ responses[s][i].chatId = slots[s].req.chatId

IsSuffix(short, long) ==
    /\ Len(short) <= Len(long)
    /\ short = SubSeq(long, Len(long) - Len(short) + 1, Len(long))

\* The last call dropped messages.
Dropped == Len(History(conversations, convOp.chatId)) < Len(convOp.before)

\* C35: after any sequence of addUserMessage, addAssistantMessage and
\* setMessages calls every chat's history has at most MAX_MESSAGES messages,
\* and after a call that dropped messages the history is the most recent
\* messages of the list the call made and is empty or begins with a message
\* of the user.
C35_HistoryBounded ==
    /\ \A chatId \in DOMAIN conversations :
          Len(conversations[chatId]) <= MAX_MESSAGES
    /\ Dropped =>
          LET history == History(conversations, convOp.chatId)
          IN  /\ IsSuffix(history, convOp.before)
              /\ history = <<>> \/ history[1].role = "user"

\* A user message added to a full history that began with a user message:
\* its reply went with it, and nineteen messages are left.
C35_Witness ==
    /\ convOp.op = "addUserMessage"
    /\ Len(convOp.before) = MAX_MESSAGES + 1
    /\ convOp.before[1].role = "user"
    /\ Len(conversations[convOp.chatId]) = MAX_MESSAGES - 1
    /\ conversations[convOp.chatId][1].role = "user"

\* --------------------------------------------------------------------- C31
\* The path the registry stores for a name equal to `name` under case
\* folding, when it stores one.
StoredAs(cfg, name) ==
    {i \in 1..Len(cfg.projects) : ToLower(cfg.projects[i].name) = ToLower(name)}

\* C31: for a name equal under case folding to the name a project is stored
\* under, getProject returns the path of that project and projectExists
\* returns true.
C31_LookupIgnoresCase ==
    (regOp.op \in {"getProject", "projectExists"}
     /\ StoredAs(config, regOp.arg) # {})
        => IF regOp.op = "projectExists" THEN regOp.result = "true"
           ELSE \E i \in StoredAs(config, regOp.arg) :
                    regOp.result = config.projects[i].path

\* --------------------------------------------------------------------- C32
\* The registry in memory is the one a load without a file gives, and the
\* last call was a lookup.
FailSafe == config = DefaultConfig /\ regOp.op # "loadConfig"

\* C32: a load that finds no file gives the registry with no user and no
\* project, and as long as that registry is the one in memory, whatever the
\* file holds by then, isAuthorizedUser returns false for every user id and
\* getProject returns nothing for every name.
C32_MissingStoreFailsSafe ==
    /\ (regOp.op = "loadConfig" /\ regOp.arg = "no file") => config = DefaultConfig
    /\ (FailSafe /\ regOp.op = "isAuthorizedUser") => regOp.result = "false"
    /\ (FailSafe /\ regOp.op = "getProject") => regOp.result = Undef

\* --------------------------------------------------------------------- C33
\* The step handles a text message; Routed is what the text parses to.
TextHandled == update'.n # update.n /\ update'.kind = "text"
Routed == parseClaudeCodeCommand(config, update'.data)
RequestStarted == \E s \in Slots : slots[s].pc = "new" /\ slots'[s].pc # "new"

\* C33: a text that parses to null is published as exactly one
\* message:incoming event and touches nothing of Claude Code; a text that
\* parses to a command publishes no message:incoming event and is handled by
\* the command handler; and a request starts only for a command that waited
\* to publish it.
C33_TextTakesOneRoute ==
    [][ /\ TextHandled =>
            IF Routed = Null
            THEN /\ incoming' = Append(incoming,
                        IncomingMessage(update'.userId, update'.chatId, update'.data))
                 /\ UNCHANGED <<replies, typing, permVars, chunkVars, coreVars>>
            ELSE /\ incoming' = incoming
                 /\ Len(replies') + Len(typing') = Len(replies) + Len(typing) + 1
        /\ ~TextHandled => incoming' = incoming
        /\ RequestStarted => Len(typing') < Len(typing) ]_vars

\* A chat text was published to the LLM worker, and a command's request
\* started a run.
C33_Witness ==
    /\ Len(incoming) = 1
    /\ update.kind = "text"
    /\ parseClaudeCodeCommand(config, update.data) = Null
    /\ \E s \in Slots : slots[s].pc = "running"

\* --------------------------------------------------------------------- C34
ClearPermissionsHandled == TextHandled /\ Routed.type = "clear-permissions"

\* C34: a clear-permissions command of a user who is not the registry's
\* authorized user leaves the rules in memory and in the file as they are and
\* is answered with the refusal; the authorized user's command deletes the
\* project's rules, and nothing else of the bot does.
C34_ClearPermissionsAuthorized ==
    [][ /\ ClearPermissionsHandled =>
            IF update'.userId # config.allowedUserId
            THEN /\ UNCHANGED <<memory, disk>>
                 /\ replies' = Append(replies, [chatId |-> update'.chatId,
                                                text |-> NotAuthorizedReply])
            ELSE /\ memory' = clearProjectMemory(memory, Routed.projectName)
                 /\ disk' = memory'
        /\ memory' # memory =>
              ClearPermissionsHandled /\ update'.userId = config.allowedUserId ]_vars

\* A user other than the authorized one asked to clear a project that has
\* rules, and was refused.
C34_Witness ==
    /\ update.kind = "text"
    /\ parseClaudeCodeCommand(config, update.data).type = "clear-permissions"
    /\ update.userId # config.allowedUserId
    /\ config.allowedUserId # ""
    /\ parseClaudeCodeCommand(config, update.data).projectName \in DOMAIN memory
    /\ replies # <<>>
    /\ replies[Len(replies)].text = NotAuthorizedReply

\* --------------------------------------------------------------------- C36
\* The step settles the wait of permission request n with an approval or with
\* a decision to remember.
SettledInFavour(n) ==
    /\ promises[n].state = "pending"
    /\ promises'[n].state = "resolved"
    /\ promises'[n].result.approved \/ promises'[n].result.remember

\* C36: the wait of a permission request is settled with an approval, or with
\* a decision that is remembered, only by a button pressed by the registry's
\* authorized user in the chat the request was sent to.
C36_OnlyAuthorizedUserDecides ==
    [][ \A n \in 1..Len(promises) :
            SettledInFavour(n) =>
                /\ update'.kind = "callback"
                /\ update'.userId = config.allowedUserId
                /\ update'.chatId = permRequests[n].chatId ]_vars


=============================================================================
